---- MODULE Spec2Model ----
(***************************************************************************)
(* The worker of local-anonymizer: the file watcher's event handler with   *)
(* its in-flight set, and processFile, the pipeline that takes one file    *)
(* through config fetch, size gate, run creation, read and schema check,   *)
(* per-message Presidio analysis/anonymization, the optional analysis      *)
(* service calls, delivery to the enabled targets (or the legacy           *)
(* TARGET_URL) and cleanup.  Every await of processFile is a step whose    *)
(* outcome the environment chooses.  The analysis-service step is the one  *)
(* of src/worker/src/processor.ts, the multi-target delivery step the one  *)
(* of the revision of the same file that has fetchDeliveryTargets.         *)
(***************************************************************************)
EXTENDS Integers, Sequences, FiniteSets, TLC

VARIABLES
  inFlight,    \* index.ts: const inFlight = new Set<string>()
  procs,       \* per path: the processFile invocations in progress (their locals)
  exists,      \* the uploads folder: does the file of this path exist
  TARGET_URL,  \* process.env.TARGET_URL of the worker process
  calls,       \* per path: the external requests of its latest orchestration, in order
  twin,        \* per path: the control-plane requests the same orchestration sends
               \* when only the text of the messages is different
  auditDown,   \* the control plane: can POST /api/logs fail
  appendFailed, \* per path: has an audit append of its latest orchestration failed
  applied,     \* the latest call of a delivery helper: its arguments and what it gave
  fileState,   \* index.ts: const fileState = new Map<string, string>() (the scanner's stamps)
  mtime,       \* the uploads folder: per path, the modification time of its file
  fresh,       \* per path: was its file modified within the last 2 seconds
  emitted,     \* chokidar: per path, the modification time its latest add/change event reported
  started,     \* per path: the modification times at which its orchestrations started
  processing_runs, \* the control plane: the rows of the table processing_runs
  handled      \* the control plane: the latest request of the runs routes and its reply

watch == <<fileState, mtime, fresh, emitted, started>>
server == <<processing_runs, handled>>
worker ==
  <<inFlight, procs, exists, TARGET_URL, calls, twin, auditDown, appendFailed,
    fileState, mtime, fresh, emitted, started, processing_runs, handled>>
vars ==
  <<inFlight, procs, exists, TARGET_URL, calls, twin, auditDown, appendFailed, applied,
    fileState, mtime, fresh, emitted, started, processing_runs, handled>>

----------------------------------------------------------------------------
\* Bounds of the model

MaxMsgs == 2       \* messages of a chat log
MaxTargets == 2    \* delivery targets in the control plane
MaxProcs == 2      \* processFile invocations of one path the model can hold at once
MaxMtime == 2      \* modification times a file of the uploads folder goes through
MaxRuns == 2       \* rows of the table processing_runs
MaxRequests == 4   \* requests the runs routes of the control plane handle

----------------------------------------------------------------------------
\* Constants of the program

MAX_FILE_SIZE_BYTES == 10 * 1024 * 1024
ACCEPTED_EXTENSIONS == {".json"}

Null == "null"         \* runId: string | null
Undefined == "undefined"   \* an optional field that is absent
NoStatus == 0          \* statusCode: number | null
RunId == "run-1"       \* the id the control plane answers a run creation with

JsonPath == [dir |-> "/uploads/", name |-> "a", ext |-> ".json"]
TextPath == [dir |-> "/uploads/", name |-> "b", ext |-> ".txt"]
Paths == {JsonPath, TextPath}

basename(filePath) == filePath.name \o filePath.ext
extname(filePath) == filePath.ext

\* hashString: the SHA-256 hex digest of a file name
hashString(str) ==
  CASE str = "a.json" -> "6025a12236ee54baceb48b335c5a8e54f073af9cb25fddd990f95e06d6e039d9"
    [] str = "b.txt" -> "ffa0da5d885fba09d903c782713b6b098c8cf21f56a3a35d9aa920613220d2e1"
    [] OTHER -> "e3b0c44298fc1c149afbf4c8996fb92427ae41e4649b934ca495991b7852b855"

----------------------------------------------------------------------------
\* What the environment can answer

Sizes == {1024, MAX_FILE_SIZE_BYTES + 1}

Analysis(url, key, sentiment, toxicity) ==
  [url |-> url, key |-> key, sentiment |-> sentiment, toxicity |-> toxicity]
NoAnalysis == Analysis("", "", FALSE, FALSE)

\* the analysis settings the model explores: not configured, a URL without
\* a key, and a configured service with each combination of the two flags
AnalysisChoices ==
  { NoAnalysis, Analysis("http://analysis", "", TRUE, TRUE) }
    \cup { Analysis("http://analysis", "key", s, t) : s \in BOOLEAN, t \in BOOLEAN }

Config(das, daf, a) ==
  [maxFileSizeBytes |-> MAX_FILE_SIZE_BYTES,
   deleteAfterSuccess |-> das, deleteAfterFailure |-> daf,
   anonymizationOperator |-> "replace",
   analysisServiceUrl |-> a.url, analysisServiceApiKey |-> a.key,
   analysisServiceSentimentEnabled |-> a.sentiment,
   analysisServiceToxicityEnabled |-> a.toxicity]

\* the answers of GET /api/config the model explores: every delete policy
\* without analysis, and every analysis setting with the files kept
Configs ==
  { Config(das, daf, NoAnalysis) : das \in BOOLEAN, daf \in BOOLEAN }
    \cup { Config(FALSE, FALSE, a) : a \in AnalysisChoices }

\* a catch branch that deletes processed files
DefaultConfig_DeleteAfterSuccess == Config(TRUE, FALSE, NoAnalysis)

\* getConfig's catch branch: the safe defaults
DefaultConfig == Config(FALSE, FALSE, NoAnalysis)

\* The chat logs of the model: up to MaxMsgs messages; the texts are all
\* free of PII ("clean"), all with an e-mail address ("mail"), or a mix.
\* role and id are valid, so the file passes ChatLogSchema.
Kinds == {"clean", "mail", "mixed"}
TextOf(kind, j) ==
  IF kind = "mixed"
  THEN (CASE j % 3 = 1 -> "both-" [] j % 3 = 2 -> "clean-" [] OTHER -> "mail-") \o ToString(j)
  ELSE kind \o "-" \o ToString(j)
Message(kind, j) ==
  [id |-> "m" \o ToString(j), role |-> IF j % 2 = 1 THEN "user" ELSE "assistant",
   content |-> TextOf(kind, j),
   timestamp |-> IF j % 2 = 1 THEN "2024-01-01T00:00:0" \o ToString(j) \o "Z" ELSE Undefined]
ChatLogs ==
  { [j \in 1..n |-> Message(kind, j)] : n \in 0..MaxMsgs, kind \in Kinds }

\* str.includes(part)
Contains(str, part) ==
  \E c \in 1..(Len(str) - Len(part) + 1) : SubSeq(str, c, c + Len(part) - 1) = part

\* what the Presidio analyzer finds in a text, by entity type
HasPrefix(text, prefix) ==
  Len(text) >= Len(prefix) /\ SubSeq(text, 1, Len(prefix)) = prefix
Findings(text) ==
  IF HasPrefix(text, "mail-") THEN <<"EMAIL_ADDRESS">>
  ELSE IF HasPrefix(text, "both-") THEN <<"EMAIL_ADDRESS", "PHONE_NUMBER">>
  ELSE <<>>

\* the part of a text that holds no entity: what follows the first "-"
Remainder(text) ==
  LET dash == CHOOSE d \in 1..Len(text) :
                /\ SubSeq(text, d, d) = "-"
                /\ \A c \in 1..(d - 1) : SubSeq(text, c, c) # "-"
  IN  SubSeq(text, dash, Len(text))

\* the answer of the Presidio anonymizer for a text: the entities found are
\* replaced as the operator says, the rest of the text is kept
AnonymizedText(text, findings, operator) ==
  "<" \o operator \o ":" \o ToString(Len(findings)) \o ">" \o Remainder(text)

Target(j, enabled) ==
  [id |-> j, name |-> "T" \o ToString(j), enabled |-> enabled]
TargetLists ==
  UNION { { [j \in 1..n |-> Target(j, en[j])] : en \in [1..n -> BOOLEAN] } : n \in 0..MaxTargets }

\* the status a target answers when it accepts the payload: each target its own
OkStatus(id) == 200 + id
LegacyOkStatus == 200
FailStatuses == {500}
TransportError == "fetch failed"

----------------------------------------------------------------------------
\* The locals of one processFile invocation

NewLocals(filePath) ==
  [pc |-> "getConfig",
   fileName |-> basename(filePath),
   config |-> DefaultConfig,
   byteSize |-> 0,
   runId |-> Null,
   chatLog |-> <<>>,
   i |-> 1,
   analysisResults |-> <<>>,
   anonymizedMessages |-> <<>>,
   presidioStats |-> <<>>,
   targets |-> <<>>,
   t |-> 1,
   statusCode |-> NoStatus,
   failed |-> <<>>]

\* the same locals when only the text of the messages is different
TwinText(text) == "~" \o text
TwinMessages(msgs) == [j \in DOMAIN msgs |-> [msgs[j] EXCEPT !.content = TwinText(@)]]
TwinLocals(l) ==
  [l EXCEPT !.chatLog = TwinMessages(@), !.anonymizedMessages = TwinMessages(@)]

\* presidioStats[r.entity_type] = (presidioStats[r.entity_type] ?? 0) + 1,
\* for each finding; the map is kept as a list of <<entity type, count>>
\* a count that is set, not added to
RECURSIVE CountInto_Overwrite(_, _)
CountInto_Overwrite(stats, type) ==
  IF stats = <<>> THEN <<[type |-> type, n |-> 1]>>
  ELSE IF Head(stats).type = type
       THEN <<[Head(stats) EXCEPT !.n = 1]>> \o Tail(stats)
       ELSE <<Head(stats)>> \o CountInto_Overwrite(Tail(stats), type)

RECURSIVE CountInto(_, _)
CountInto(stats, type) ==
  IF stats = <<>> THEN <<[type |-> type, n |-> 1]>>
  ELSE IF Head(stats).type = type
       THEN <<[Head(stats) EXCEPT !.n = @ + 1]>> \o Tail(stats)
       ELSE <<Head(stats)>> \o CountInto(Tail(stats), type)

RECURSIVE AddFindings(_, _)
AddFindings(stats, findings) ==
  IF findings = <<>> THEN stats
  ELSE AddFindings(CountInto(stats, Head(findings)), Tail(findings))

\* Object.values(presidioStats).reduce((a, b) => a + b, 0)
RECURSIVE SumCounts(_)
SumCounts(stats) ==
  IF stats = <<>> THEN 0 ELSE Head(stats).n + SumCounts(Tail(stats))

----------------------------------------------------------------------------
\* The requests to the control plane, built from the locals as the call
\* sites of processFile build them

CreateRunBody(sourceFileName, sourceFileSize, status) ==
  [sourceType |-> "folderUpload", sourceFileName |-> sourceFileName,
   sourceFileSize |-> sourceFileSize, status |-> status]

\* a run created under the name of the file itself
ReqCreateRun_RawName(l) ==
  [to |-> "api", op |-> "POST /api/runs",
   body |-> CreateRunBody(l.fileName, l.byteSize, "queued")]

ReqCreateRun(l) ==
  [to |-> "api", op |-> "POST /api/runs",
   body |-> CreateRunBody("sha256:" \o hashString(l.fileName), l.byteSize, "queued")]

ReqUpdateRun(id, fields) ==
  [to |-> "api", op |-> "PATCH /api/runs", id |-> id, body |-> fields]

\* JSON.stringify({ runId, eventType, level, meta }): an undefined meta is left out
ReqAppendLog(runId, eventType, level) ==
  [to |-> "api", op |-> "POST /api/logs",
   body |-> [runId |-> runId, eventType |-> eventType, level |-> level]]
ReqAppendLogMeta(runId, eventType, level, meta) ==
  [to |-> "api", op |-> "POST /api/logs",
   body |-> [runId |-> runId, eventType |-> eventType, level |-> level, meta |-> meta]]

ReqGetConfig(res) == [to |-> "api", op |-> "GET /api/config", res |-> res]
\* with the enabled targets the control plane holds when it is asked
ReqGetTargets(enabled, res) ==
  [to |-> "api", op |-> "GET /api/targets", enabled |-> enabled, res |-> res]

ReqFileDetected(l) ==
  ReqAppendLogMeta(l.runId, "file_detected", "info", [byteSize |-> l.byteSize])
ReqProcessing(l) == ReqUpdateRun(l.runId, [status |-> "processing"])
ReqAnonymizeStarted(l) == ReqAppendLog(l.runId, "anonymize_started", "info")

ReadErrorFields ==
  [status |-> "failed", errorCode |-> "READ_ERROR", errorMessageSafe |-> "Could not read file"]
InvalidSchemaFields ==
  [status |-> "failed", errorCode |-> "INVALID_SCHEMA", errorMessageSafe |-> "Invalid schema"]
PresidioErrorFields(message) ==
  [status |-> "failed", errorCode |-> "PRESIDIO_ERROR",
   errorMessageSafe |-> "Presidio error: " \o message]
\* the durations are elapsed times; the model keeps the fields, not the values
DeliveryErrorFields(message) ==
  [status |-> "failed", errorCode |-> "DELIVERY_ERROR",
   errorMessageSafe |-> "Delivery error: " \o message,
   deliveryDurationMs |-> "ms", durationMs |-> "ms"]

ReqFailed(l) == ReqUpdateRun(l.runId, l.failed)
ReqRunFailed(l) ==
  ReqAppendLogMeta(l.runId, "run_failed", "error", [errorCode |-> l.failed.errorCode])

\* the anonymized messages persisted with the stats
AnonymizedFields_WithMessages(l) ==
  [status |-> "anonymized", presidioStats |-> l.presidioStats,
   messages |-> l.anonymizedMessages]

AnonymizedFields(l) == [status |-> "anonymized", presidioStats |-> l.presidioStats]
ReqAnonymized(l) == ReqUpdateRun(l.runId, AnonymizedFields(l))
ReqAnonymizeSucceeded(l) ==
  ReqAppendLogMeta(l.runId, "anonymize_succeeded", "info",
                   [entityCount |-> SumCounts(l.presidioStats)])
ReqDeliveryStarted(l) == ReqAppendLog(l.runId, "delivery_started", "info")

\* the status code written even when there is none
DeliveredFields_WithNull(l) ==
  [status |-> "delivered", deliveryStatusCode |-> l.statusCode,
   deliveryDurationMs |-> "ms", durationMs |-> "ms"]

\* deliveryStatusCode: statusCode ?? undefined
DeliveredFields(l) ==
  IF l.statusCode = NoStatus
  THEN [status |-> "delivered", deliveryDurationMs |-> "ms", durationMs |-> "ms"]
  ELSE [status |-> "delivered", deliveryStatusCode |-> l.statusCode,
        deliveryDurationMs |-> "ms", durationMs |-> "ms"]
ReqDelivered(l) == ReqUpdateRun(l.runId, DeliveredFields(l))
ReqDeliverySucceeded(l) ==
  ReqAppendLogMeta(l.runId, "delivery_succeeded", "info",
                   [statusCode |-> l.statusCode, deliveryDurationMs |-> "ms"])
ReqDeleted(l) == ReqUpdateRun(l.runId, [status |-> "deleted"])
ReqCleanupDeleted(l) == ReqAppendLog(l.runId, "cleanup_deleted", "info")

\* The requests to the other services
ReqAnalyze(l) ==
  [to |-> "presidio", op |-> "analyze", i |-> l.i, text |-> l.chatLog[l.i].content]
ReqAnonymize(l) ==
  [to |-> "presidio", op |-> "anonymize", i |-> l.i, text |-> l.chatLog[l.i].content]
ReqAnalysis(endpoint, ok) == [to |-> "analysis", op |-> endpoint, ok |-> ok]
ReqTarget(target, status) ==
  [to |-> "target", op |-> "callTarget", id |-> target.id, status |-> status]
ReqLegacy(status) == [to |-> "legacy", op |-> "deliverToTargetUrl", status |-> status]
ReqUnlink(ok) == [to |-> "fs", op |-> "unlink", ok |-> ok]

ReqReadFile(res) == [to |-> "fs", op |-> "readFile", res |-> res]

IsApi(req) == req.to = "api"

\* The messages of the errors processFile catches
\* presidio-client: throw new Error(`Presidio Analyzer HTTP ${res.status}`),
\* or the rejection of fetch itself
PresidioErrors(service) ==
  { "Presidio " \o service \o " HTTP " \o ToString(status) : status \in FailStatuses }
    \cup {TransportError}
\* callTarget: throw new Error(`Delivery target "${target.name}" HTTP ${res.status}`)
TargetHttpError(target, status) ==
  "Delivery target \"" \o target.name \o "\" HTTP " \o ToString(status)
\* deliverToTargetUrl: throw new Error(`Delivery target HTTP ${res.status}`)
LegacyHttpError(status) == "Delivery target HTTP " \o ToString(status)

\* a request together with how the call ended (TRUE: the awaited promise
\* resolved; FALSE: it rejected)
Outcome(req, ok) == [ok |-> ok] @@ req

----------------------------------------------------------------------------
\* Where processFile goes next

AnalysisConfigured(l) ==
  l.config.analysisServiceUrl # "" /\ l.config.analysisServiceApiKey # ""

Cleanup(l) == IF l.config.deleteAfterSuccess THEN "unlink" ELSE "finally"
\* the update to delivered left out
AfterDelivery_NoUpdate(l) == Cleanup(l)

AfterDelivery(l) == IF l.runId # Null THEN "updDelivered" ELSE Cleanup(l)
AfterSentiment(l) ==
  IF AnalysisConfigured(l) /\ l.config.analysisServiceToxicityEnabled
  THEN "toxicity" ELSE "fetchTargets"
\* the toxicity call nested in the sentiment branch
AfterAnonymized_Nested(l) ==
  IF AnalysisConfigured(l) /\ l.config.analysisServiceSentimentEnabled
  THEN "sentiment" ELSE "fetchTargets"

AfterAnonymized(l) ==
  IF AnalysisConfigured(l) /\ l.config.analysisServiceSentimentEnabled
  THEN "sentiment" ELSE AfterSentiment(l)
\* the update to anonymized without the test of runId
AfterLoop_NoRunCheck(l) == "updAnonymized"

AfterLoop(l) == IF l.runId # Null THEN "updAnonymized" ELSE AfterAnonymized(l)
\* the return of a failure branch left out: the cleanup step follows
AfterRunFailed_NoReturn(l) ==
  IF l.config.deleteAfterFailure THEN "failUnlink" ELSE Cleanup(l)

AfterRunFailed(l) == IF l.config.deleteAfterFailure THEN "failUnlink" ELSE "finally"
\* a failure branch: if (runId) { updateRun; appendLog }, then the delete policy
FailWith(l, fields) ==
  LET f == [l EXCEPT !.failed = fields]
  IN  [f EXCEPT !.pc = IF l.runId # Null THEN "failUpd" ELSE AfterRunFailed(f)]

\* a push that leaves the timestamp out
Pushed_NoTimestamp(l, content, findings) ==
  LET m == l.chatLog[l.i]
      l2 == [l EXCEPT
               !.anonymizedMessages =
                   Append(@, [id |-> m.id, role |-> m.role, content |-> content,
                              timestamp |-> Undefined,
                              entities_found |-> Len(findings)]),
               !.presidioStats = AddFindings(@, findings),
               !.analysisResults = <<>>,
               !.i = @ + 1]
  IN  [l2 EXCEPT !.pc = IF l2.i > Len(l.chatLog) THEN AfterLoop(l2) ELSE "analyze"]

\* a push at the front of the list
Pushed_Unshift(l, content, findings) ==
  LET m == l.chatLog[l.i]
      l2 == [l EXCEPT
               !.anonymizedMessages =
                   <<[id |-> m.id, role |-> m.role, content |-> content,
                      timestamp |-> m.timestamp,
                      entities_found |-> Len(findings)]>> \o @,
               !.presidioStats = AddFindings(@, findings),
               !.analysisResults = <<>>,
               !.i = @ + 1]
  IN  [l2 EXCEPT !.pc = IF l2.i > Len(l.chatLog) THEN AfterLoop(l2) ELSE "analyze"]

\* anonymizedMessages.push(...), the stats of the findings, and the next message
Pushed(l, content, findings) ==
  LET m == l.chatLog[l.i]
      l2 == [l EXCEPT
               !.anonymizedMessages =
                   Append(@, [id |-> m.id, role |-> m.role, content |-> content,
                              timestamp |-> m.timestamp,
                              entities_found |-> Len(findings)]),
               !.presidioStats = AddFindings(@, findings),
               !.analysisResults = <<>>,
               !.i = @ + 1]
  IN  [l2 EXCEPT !.pc = IF l2.i > Len(l.chatLog) THEN AfterLoop(l2) ELSE "analyze"]

----------------------------------------------------------------------------
\* no helper has been called on its own
NotApplied == [fn |-> "none"]
NotHandled == [route |-> "none", now |-> 0]

\* no stamp in fileState, no event emitted yet, every file settled
NoStamp == 0
Unwatched ==
  /\ fileState = [p \in Paths |-> NoStamp]
  /\ mtime = [p \in Paths |-> 1]
  /\ fresh = [p \in Paths |-> FALSE]
  /\ emitted = [p \in Paths |-> NoStamp]
  /\ started = [p \in Paths |-> <<>>]
  /\ processing_runs = <<>>
  /\ handled = NotHandled

Init ==
  /\ inFlight = {}
  /\ procs = [p \in Paths |-> <<>>]
  /\ exists = [p \in Paths |-> TRUE]
  /\ TARGET_URL \in {"", "http://legacy"}
  /\ calls = [p \in Paths |-> <<>>]
  /\ twin = [p \in Paths |-> <<>>]
  /\ auditDown = FALSE
  /\ appendFailed = [p \in Paths |-> FALSE]
  /\ applied = NotApplied
  /\ Unwatched

\* the worker with the legacy target set, facing a control plane whose
\* audit route fails
InitAudit ==
  /\ inFlight = {}
  /\ procs = [p \in Paths |-> <<>>]
  /\ exists = [p \in Paths |-> TRUE]
  /\ TARGET_URL = "http://legacy"
  /\ calls = [p \in Paths |-> <<>>]
  /\ twin = [p \in Paths |-> <<>>]
  /\ auditDown = TRUE
  /\ appendFailed = [p \in Paths |-> FALSE]
  /\ applied = NotApplied
  /\ Unwatched

\* how the fetch of an appendLog among the requests of a step can end
AppendOutcomes(sent) ==
  IF auditDown /\ \E j \in DOMAIN sent : sent[j].op = "POST /api/logs"
  THEN BOOLEAN ELSE {TRUE}

\* were appendLog to reject, processFile would be left at that await
Step_AppendThrows(p, k, l2, sent, sentTwin) ==
  /\ \E logOk \in AppendOutcomes(sent) :
       /\ procs' = [procs EXCEPT ![p][k] = IF logOk THEN l2 ELSE [l2 EXCEPT !.pc = "finally"]]
       /\ appendFailed' = [appendFailed EXCEPT ![p] = @ \/ ~logOk]
  /\ calls' = [calls EXCEPT ![p] = @ \o sent]
  /\ twin' = [twin EXCEPT ![p] = @ \o SelectSeq(sentTwin, IsApi)]
  /\ UNCHANGED <<inFlight, TARGET_URL, auditDown, applied, watch, server>>

\* one await of an invocation: its locals change and its requests are
\* recorded.  appendLog ends its fetch with .catch(() => {}): whether the
\* append failed changes nothing in the invocation.
Step(p, k, l2, sent, sentTwin) ==
  /\ \E logOk \in AppendOutcomes(sent) :
       /\ procs' = [procs EXCEPT ![p][k] = l2]
       /\ appendFailed' = [appendFailed EXCEPT ![p] = @ \/ ~logOk]
  /\ calls' = [calls EXCEPT ![p] = @ \o sent]
  /\ twin' = [twin EXCEPT ![p] = @ \o SelectSeq(sentTwin, IsApi)]
  /\ UNCHANGED <<inFlight, TARGET_URL, auditDown, applied, watch, server>>

Slots == 1..MaxProcs

At(p, k, pc) == k \in DOMAIN procs[p] /\ procs[p][k].pc = pc

\* the guard left out: every event starts an orchestration
AlreadyInFlight_NoGuard(filePath) == FALSE

\* if (inFlight.has(filePath)) return
AlreadyInFlight(filePath) == filePath \in inFlight

\* handleFileEvent up to its first await that waits for the outside world:
\* watcher add, watcher change or scanner dispatch.  processFile starts with
\* the extension gate; for a file it skips, processFile has returned and the
\* finally has run before any other event is handled.
handleFileEvent(p) ==
  IF AlreadyInFlight(p)
  THEN UNCHANGED <<inFlight, procs, exists, TARGET_URL, calls, twin, auditDown,
                   appendFailed, applied>>
  ELSE /\ calls' = [calls EXCEPT ![p] = <<>>]
       /\ twin' = [twin EXCEPT ![p] = <<>>]
       /\ appendFailed' = [appendFailed EXCEPT ![p] = FALSE]
       /\ UNCHANGED <<exists, TARGET_URL, auditDown, applied>>
       /\ IF extname(p) \in ACCEPTED_EXTENSIONS
          THEN /\ inFlight' = inFlight \cup {p}
               /\ procs' = [procs EXCEPT ![p] = Append(@, NewLocals(p))]
          ELSE UNCHANGED <<inFlight, procs>>

\* finally { inFlight.delete(filePath) }
Finally(p, k) ==
  /\ At(p, k, "finally")
  /\ inFlight' = inFlight \ {p}
  /\ procs' = [procs EXCEPT ![p] = SubSeq(@, 1, k - 1) \o SubSeq(@, k + 1, Len(@))]
  /\ UNCHANGED <<exists, TARGET_URL, calls, twin, auditDown, applied, appendFailed, watch, server>>

\* const config = await getConfig()
GetConfig(p, k) ==
  /\ At(p, k, "getConfig")
  /\ \E ok \in BOOLEAN :
       \E res \in IF ok THEN Configs ELSE {DefaultConfig} :
         LET l == procs[p][k]
             l2 == [l EXCEPT !.config = res, !.pc = "stat"]
         IN  Step(p, k, l2, <<Outcome(ReqGetConfig(res), ok)>>, <<Outcome(ReqGetConfig(res), ok)>>)
  /\ UNCHANGED exists

\* fs.stat without the size gate
Stat_NoSizeGate(p, k) ==
  /\ At(p, k, "stat")
  /\ LET l == procs[p][k] IN
       IF ~exists[p]
       THEN Step(p, k, [l EXCEPT !.pc = "finally"], <<>>, <<>>)
       ELSE \E size \in Sizes :
              Step(p, k, [l EXCEPT !.byteSize = size, !.pc = "createRun"], <<>>, <<>>)
  /\ UNCHANGED exists

\* fs.stat and the size gate
Stat(p, k) ==
  /\ At(p, k, "stat")
  /\ LET l == procs[p][k] IN
       IF ~exists[p]
       THEN Step(p, k, [l EXCEPT !.pc = "finally"], <<>>, <<>>)
       ELSE \E size \in Sizes :
              Step(p, k,
                   [l EXCEPT !.byteSize = size,
                             !.pc = IF size > l.config.maxFileSizeBytes
                                    THEN "finally" ELSE "createRun"],
                   <<>>, <<>>)
  /\ UNCHANGED exists

\* Step 1: runId = await createRun(...); await appendLog(runId, 'file_detected', ...)
CreateRun(p, k) ==
  /\ At(p, k, "createRun")
  /\ LET l == procs[p][k] IN
     \E ok \in BOOLEAN :
       IF ok
       THEN LET l2 == [l EXCEPT !.runId = RunId, !.pc = "updProcessing"]
                S(x) == <<Outcome(ReqCreateRun(x), TRUE), ReqFileDetected(x)>>
            IN  Step(p, k, l2, S(l2), S(TwinLocals(l2)))
       ELSE LET l2 == [l EXCEPT !.pc = "readFile"]
                S(x) == <<Outcome(ReqCreateRun(x), FALSE)>>
            IN  Step(p, k, l2, S(l2), S(TwinLocals(l2)))
  /\ UNCHANGED exists

\* the event appended before the update of its stage
UpdProcessing_EventFirst(p, k) ==
  /\ At(p, k, "updProcessing")
  /\ LET l == procs[p][k]
         l2 == [l EXCEPT !.pc = "readFile"]
     IN  \E ok \in BOOLEAN :
           LET S(x) == <<ReqAnonymizeStarted(x), Outcome(ReqProcessing(x), ok)>>
           IN  Step(p, k, l2, S(l), S(TwinLocals(l)))
  /\ UNCHANGED exists

\* Step 2: try { updateRun processing; appendLog anonymize_started } catch { log }
UpdProcessing(p, k) ==
  /\ At(p, k, "updProcessing")
  /\ LET l == procs[p][k]
         l2 == [l EXCEPT !.pc = "readFile"]
     IN  \E ok \in BOOLEAN :
           LET S(x) == IF ok THEN <<Outcome(ReqProcessing(x), TRUE), ReqAnonymizeStarted(x)>>
                       ELSE <<Outcome(ReqProcessing(x), FALSE)>>
           IN  Step(p, k, l2, S(l), S(TwinLocals(l)))
  /\ UNCHANGED exists

\* fs.readFile, then ChatLogSchema.parse(JSON.parse(raw))
ReadFile(p, k) ==
  /\ At(p, k, "readFile")
  /\ LET l == procs[p][k] IN
       \/ Step(p, k, FailWith(l, ReadErrorFields), <<ReqReadFile("error")>>, <<>>)
       \/ /\ exists[p]
          /\ \/ Step(p, k, FailWith(l, InvalidSchemaFields), <<ReqReadFile("invalid")>>, <<>>)
             \/ \E log \in ChatLogs :
                  LET l2 == [l EXCEPT !.chatLog = log]
                  IN  Step(p, k, [l2 EXCEPT !.pc = IF Len(log) = 0 THEN AfterLoop(l2) ELSE "analyze"],
                           <<ReqReadFile("valid")>>, <<>>)
  /\ UNCHANGED exists

\* the failure branches: await updateRun(runId, { status: 'failed', ... });
\* await appendLog(runId, 'run_failed', ...).  A rejected updateRun is not
\* caught there: it leaves processFile through handleFileEvent's catch.
FailUpd(p, k) ==
  /\ At(p, k, "failUpd")
  /\ LET l == procs[p][k] IN
     \E ok \in BOOLEAN :
       LET S(x) == IF ok THEN <<Outcome(ReqFailed(x), TRUE), ReqRunFailed(x)>>
                   ELSE <<Outcome(ReqFailed(x), FALSE)>>
       IN  Step(p, k, [l EXCEPT !.pc = IF ok THEN AfterRunFailed(l) ELSE "finally"],
                S(l), S(TwinLocals(l)))
  /\ UNCHANGED exists

\* if (config.deleteAfterFailure) await fs.unlink(filePath).catch(() => {})
FailUnlink(p, k) ==
  /\ At(p, k, "failUnlink")
  /\ LET l == procs[p][k] IN
     \E ok \in {b \in BOOLEAN : b => exists[p]} :
       /\ Step(p, k, [l EXCEPT !.pc = "finally"], <<ReqUnlink(ok)>>, <<>>)
       /\ exists' = [exists EXCEPT ![p] = @ /\ ~ok]

\* const analysisResults = await presidio.analyze(msg.content, LANGUAGE)
Analyze(p, k) ==
  /\ At(p, k, "analyze")
  /\ LET l == procs[p][k] IN
       \/ \E message \in PresidioErrors("Analyzer") :
            Step(p, k, FailWith(l, PresidioErrorFields(message)),
                 <<Outcome(ReqAnalyze(l), FALSE)>>, <<>>)
       \/ LET findings == Findings(l.chatLog[l.i].content) IN
            Step(p, k,
                 IF Len(findings) > 0
                 THEN [l EXCEPT !.analysisResults = findings, !.pc = "anonymize"]
                 ELSE Pushed(l, l.chatLog[l.i].content, findings),
                 <<Outcome(ReqAnalyze(l), TRUE)>>, <<>>)
  /\ UNCHANGED exists

\* await presidio.anonymize(msg.content, analysisResults, buildAnonymizers(...))
Anonymize(p, k) ==
  /\ At(p, k, "anonymize")
  /\ LET l == procs[p][k] IN
       \/ \E message \in PresidioErrors("Anonymizer") :
            Step(p, k, FailWith(l, PresidioErrorFields(message)),
                 <<Outcome(ReqAnonymize(l), FALSE)>>, <<>>)
       \/ Step(p, k,
               Pushed(l, AnonymizedText(l.chatLog[l.i].content, l.analysisResults,
                                        l.config.anonymizationOperator),
                      l.analysisResults),
               <<Outcome(ReqAnonymize(l), TRUE)>>, <<>>)
  /\ UNCHANGED exists

\* Mark as anonymized: if (runId) { updateRun anonymized; appendLog
\* anonymize_succeeded }, outside any try
UpdAnonymized(p, k) ==
  /\ At(p, k, "updAnonymized")
  /\ LET l == procs[p][k] IN
     \E ok \in BOOLEAN :
       LET S(x) == IF ok THEN <<Outcome(ReqAnonymized(x), TRUE), ReqAnonymizeSucceeded(x)>>
                   ELSE <<Outcome(ReqAnonymized(x), FALSE)>>
       IN  Step(p, k, [l EXCEPT !.pc = IF ok THEN AfterAnonymized(l) ELSE "finally"],
                S(l), S(TwinLocals(l)))
  /\ UNCHANGED exists

\* a sentiment call whose failure is not caught
Sentiment_Fatal(p, k) ==
  /\ At(p, k, "sentiment")
  /\ LET l == procs[p][k] IN
     \E ok \in BOOLEAN :
       Step(p, k, [l EXCEPT !.pc = IF ok THEN AfterSentiment(l) ELSE "finally"],
            <<ReqAnalysis("sentiment", ok)>>, <<>>)
  /\ UNCHANGED exists

\* the sentiment call of the analysis service, in its own try/catch
Sentiment(p, k) ==
  /\ At(p, k, "sentiment")
  /\ LET l == procs[p][k] IN
     \E ok \in BOOLEAN :
       Step(p, k, [l EXCEPT !.pc = AfterSentiment(l)], <<ReqAnalysis("sentiment", ok)>>, <<>>)
  /\ UNCHANGED exists

\* the toxicity call of the analysis service, in its own try/catch
Toxicity(p, k) ==
  /\ At(p, k, "toxicity")
  /\ LET l == procs[p][k] IN
     \E ok \in BOOLEAN :
       Step(p, k, [l EXCEPT !.pc = "fetchTargets"], <<ReqAnalysis("toxicity", ok)>>, <<>>)
  /\ UNCHANGED exists

\* json.ok ? json.data.filter(t => t.enabled) : []
EnabledTargets(db) == SelectSeq(db, LAMBDA target : target.enabled)

\* fetchDeliveryTargets: the enabled targets, [] on any failure
FetchedTargets(db, res) == IF res = "ok" THEN EnabledTargets(db) ELSE <<>>

\* if (runId) appendLog delivery_started; targets = await fetchDeliveryTargets();
\* with no target, deliverToTargetUrl returns null when TARGET_URL is not set
FetchTargets(p, k) ==
  /\ At(p, k, "fetchTargets")
  /\ LET l == procs[p][k] IN
     \E db \in TargetLists, res \in {"ok", "notok", "throw"} :
       LET l2 == [l EXCEPT !.targets = FetchedTargets(db, res), !.t = 1]
           S(x) == (IF x.runId # Null THEN <<ReqDeliveryStarted(x)>> ELSE <<>>)
                   \o <<ReqGetTargets(EnabledTargets(db), res)>>
       IN  Step(p, k,
                [l2 EXCEPT !.pc = IF Len(l2.targets) > 0 THEN "callTarget"
                                  ELSE IF TARGET_URL # "" THEN "legacy"
                                  ELSE AfterDelivery(l2)],
                S(l), S(TwinLocals(l)))
  /\ UNCHANGED exists

\* the delivery catch: errorMessageSafe: `Delivery error: ${(e as Error).message}`
DeliveryCatch(l, message) == FailWith(l, DeliveryErrorFields(message))

\* for (const target of targets) statusCode = await callTarget(target, result)
CallTarget(p, k) ==
  /\ At(p, k, "callTarget")
  /\ LET l == procs[p][k]
         target == l.targets[l.t]
     IN  \/ LET status == OkStatus(target.id)
                  l2 == [l EXCEPT !.statusCode = status, !.t = @ + 1]
              IN  Step(p, k,
                       [l2 EXCEPT !.pc = IF l2.t > Len(l.targets)
                                         THEN AfterDelivery(l2) ELSE "callTarget"],
                       <<ReqTarget(target, status)>>, <<>>)
         \/ \E status \in FailStatuses :
              Step(p, k, DeliveryCatch(l, TargetHttpError(target, status)),
                   <<ReqTarget(target, status)>>, <<>>)
         \/ Step(p, k, DeliveryCatch(l, TransportError),
                 <<ReqTarget(target, NoStatus)>>, <<>>)
  /\ UNCHANGED exists

\* statusCode = await deliverToTargetUrl(result), TARGET_URL being set
Legacy(p, k) ==
  /\ At(p, k, "legacy")
  /\ LET l == procs[p][k]
     IN  \/ LET status == LegacyOkStatus
                  l2 == [l EXCEPT !.statusCode = status]
              IN  Step(p, k, [l2 EXCEPT !.pc = AfterDelivery(l2)], <<ReqLegacy(status)>>, <<>>)
         \/ \E status \in FailStatuses :
              Step(p, k, DeliveryCatch(l, LegacyHttpError(status)), <<ReqLegacy(status)>>, <<>>)
         \/ Step(p, k, DeliveryCatch(l, TransportError), <<ReqLegacy(NoStatus)>>, <<>>)
  /\ UNCHANGED exists

\* inside the delivery try: updateRun delivered; appendLog delivery_succeeded.
\* A rejected updateRun is caught by the delivery catch.
UpdDelivered(p, k) ==
  /\ At(p, k, "updDelivered")
  /\ LET l == procs[p][k] IN
     \E ok \in BOOLEAN :
       LET S(x) == IF ok THEN <<Outcome(ReqDelivered(x), TRUE), ReqDeliverySucceeded(x)>>
                   ELSE <<Outcome(ReqDelivered(x), FALSE)>>
       IN  Step(p, k,
                IF ok THEN [l EXCEPT !.pc = Cleanup(l)] ELSE DeliveryCatch(l, TransportError),
                S(l), S(TwinLocals(l)))
  /\ UNCHANGED exists

\* a cleanup that marks the run deleted whether or not the unlink succeeded
Unlink_MarksDeleted(p, k) ==
  /\ At(p, k, "unlink")
  /\ LET l == procs[p][k] IN
     \E ok \in {b \in BOOLEAN : b => exists[p]} :
       /\ Step(p, k, [l EXCEPT !.pc = IF l.runId # Null THEN "updDeleted" ELSE "finally"],
               <<ReqUnlink(ok)>>, <<>>)
       /\ exists' = [exists EXCEPT ![p] = @ /\ ~ok]

\* Cleanup: try { await fs.unlink(filePath); ... } catch { warn }
Unlink(p, k) ==
  /\ At(p, k, "unlink")
  /\ LET l == procs[p][k] IN
     \E ok \in {b \in BOOLEAN : b => exists[p]} :
       /\ Step(p, k,
               [l EXCEPT !.pc = IF ok /\ l.runId # Null THEN "updDeleted" ELSE "finally"],
               <<ReqUnlink(ok)>>, <<>>)
       /\ exists' = [exists EXCEPT ![p] = @ /\ ~ok]

\* if (runId) { updateRun deleted; appendLog cleanup_deleted }, inside the
\* cleanup try: a rejected updateRun is caught and logged as cleanup_failed
UpdDeleted(p, k) ==
  /\ At(p, k, "updDeleted")
  /\ LET l == procs[p][k] IN
     \E ok \in BOOLEAN :
       LET S(x) == IF ok THEN <<Outcome(ReqDeleted(x), TRUE), ReqCleanupDeleted(x)>>
                   ELSE <<Outcome(ReqDeleted(x), FALSE)>>
       IN  Step(p, k, [l EXCEPT !.pc = "finally"], S(l), S(TwinLocals(l)))
  /\ UNCHANGED exists

\* a file is dropped into the uploads folder again
Upload(p) ==
  /\ ~exists[p]
  /\ exists' = [exists EXCEPT ![p] = TRUE]
  /\ UNCHANGED <<inFlight, procs, TARGET_URL, calls, twin, auditDown, applied, appendFailed, watch, server>>

\* an add event, a change event or a dispatch of the scanner, at any moment
FileEvent(p) == handleFileEvent(p) /\ UNCHANGED <<watch, server>>

Next ==
  \/ \E p \in Paths : FileEvent(p)
  \/ \E p \in Paths : Upload(p)
  \/ \E p \in Paths, k \in Slots :
       \/ Finally(p, k)
       \/ GetConfig(p, k)
       \/ Stat(p, k)
       \/ CreateRun(p, k)
       \/ UpdProcessing(p, k)
       \/ ReadFile(p, k)
       \/ FailUpd(p, k)
       \/ FailUnlink(p, k)
       \/ Analyze(p, k)
       \/ Anonymize(p, k)
       \/ UpdAnonymized(p, k)
       \/ Sentiment(p, k)
       \/ Toxicity(p, k)
       \/ FetchTargets(p, k)
       \/ CallTarget(p, k)
       \/ Legacy(p, k)
       \/ UpdDelivered(p, k)
       \/ Unlink(p, k)
       \/ UpdDeleted(p, k)

Spec == Init /\ [][Next]_vars
SpecAudit == InitAudit /\ [][Next]_vars

\* The steps of processFile that end by themselves: the requests sent with
\* signal: AbortSignal.timeout(...) (Presidio, the analysis service, the
\* delivery targets), the calls of the local file system, and the finally
\* of handleFileEvent.  The requests to the control plane (getConfig,
\* createRun, updateRun, appendLog, fetchDeliveryTargets) are sent without a
\* signal: they end when the control plane answers or closes the connection.
TimedStep(p, k) ==
  \/ Finally(p, k)
  \/ Stat(p, k)
  \/ ReadFile(p, k)
  \/ FailUnlink(p, k)
  \/ Analyze(p, k)
  \/ Anonymize(p, k)
  \/ Sentiment(p, k)
  \/ Toxicity(p, k)
  \/ CallTarget(p, k)
  \/ Legacy(p, k)
  \/ Unlink(p, k)

\* the worker with the steps that end by themselves taken eventually
SpecTimeouts ==
  Init /\ [][Next]_vars /\ \A p \in Paths : \A k \in Slots : WF_vars(TimedStep(p, k))

----------------------------------------------------------------------------
\* The watcher and the fallback scanner of the worker (the revision of
\* index.ts with fileState).  Time is the order of the steps: a file is
\* fresh from its modification until 2 seconds have passed.

\* `${stat.size}:${Math.floor(stat.mtimeMs)}` of the file as it is now
Stamp(p) == mtime[p]

\* void handleFileEvent(filePath), in a handler of the watcher or in the
\* scanner's loop; the orchestration it starts is noted with the stamp
Dispatch(p) ==
  /\ handleFileEvent(p)
  /\ started' = [started EXCEPT ![p] = IF AlreadyInFlight(p) THEN @ ELSE Append(@, Stamp(p))]
  /\ UNCHANGED server

\* watcher.on('add'): chokidar reports a file it has not reported yet, once
\* the file has stopped changing (awaitWriteFinish, stabilityThreshold 2000)
WatcherAdd(p) ==
  /\ exists[p] /\ ~fresh[p]
  /\ emitted[p] = NoStamp
  /\ emitted' = [emitted EXCEPT ![p] = Stamp(p)]
  /\ Dispatch(p)
  /\ UNCHANGED <<fileState, mtime, fresh>>

\* watcher.on('change'): chokidar reports a modification of a file it has
\* reported, once the file has stopped changing
WatcherChange(p) ==
  /\ exists[p] /\ ~fresh[p]
  /\ emitted[p] \notin {NoStamp, Stamp(p)}
  /\ emitted' = [emitted EXCEPT ![p] = Stamp(p)]
  /\ Dispatch(p)
  /\ UNCHANGED <<fileState, mtime, fresh>>

\* one turn of the loop of scanUploadsDir that gets past its three
\* `continue`s: the file is listed by listJsonFiles (.json), stat succeeds,
\* the file was not modified in the last 2 seconds and its stamp is not the
\* one in fileState
ScanUploadsDir(p) ==
  /\ exists[p] /\ extname(p) = ".json"
  /\ ~fresh[p]
  /\ fileState[p] # Stamp(p)
  /\ fileState' = [fileState EXCEPT ![p] = Stamp(p)]
  /\ Dispatch(p)
  /\ UNCHANGED <<mtime, fresh, emitted>>

\* somebody writes the file of a path: new content, a new modification time
Modify(p) ==
  /\ mtime[p] < MaxMtime
  /\ mtime' = [mtime EXCEPT ![p] = @ + 1]
  /\ fresh' = [fresh EXCEPT ![p] = TRUE]
  /\ exists' = [exists EXCEPT ![p] = TRUE]
  /\ UNCHANGED <<inFlight, procs, TARGET_URL, calls, twin, auditDown, applied, appendFailed,
                 fileState, emitted, started, server>>

\* 2 seconds pass without a write to the file
Settle(p) ==
  /\ fresh[p]
  /\ fresh' = [fresh EXCEPT ![p] = FALSE]
  /\ UNCHANGED <<inFlight, procs, exists, TARGET_URL, calls, twin, auditDown, applied,
                 appendFailed, fileState, mtime, emitted, started, server>>

\* a step of processFile, or the finally of handleFileEvent
OrchestrationStep(p, k) ==
  \/ TimedStep(p, k)
  \/ GetConfig(p, k)
  \/ CreateRun(p, k)
  \/ UpdProcessing(p, k)
  \/ FailUpd(p, k)
  \/ UpdAnonymized(p, k)
  \/ FetchTargets(p, k)
  \/ UpdDelivered(p, k)
  \/ UpdDeleted(p, k)

\* The surroundings of the worker while its watcher is studied: every
\* request is answered and succeeds, the configuration sets no analysis
\* service, the chat logs are empty and no delivery target is enabled.
Healthy ==
  \A p \in Paths :
    /\ \A j \in DOMAIN calls[p] :
         LET req == calls[p][j] IN
           /\ "ok" \in DOMAIN req => req.ok
           /\ req.op = "GET /api/config" => req.res.analysisServiceUrl = ""
           /\ req.op = "readFile" => req.res = "valid"
           /\ req.op = "GET /api/targets" => req.res = "ok"
    /\ \A k \in DOMAIN procs[p] :
         procs[p][k].chatLog = <<>> /\ procs[p][k].targets = <<>>

\* a step of an orchestration in these surroundings
HealthyStep(p, k) == OrchestrationStep(p, k) /\ Healthy'

NextWatcher ==
  \/ \E p \in Paths : WatcherAdd(p)
  \/ \E p \in Paths : WatcherChange(p)
  \/ \E p \in Paths : ScanUploadsDir(p)
  \/ \E p \in Paths : Modify(p)
  \/ \E p \in Paths : Settle(p)
  \/ \E p \in Paths, k \in Slots : HealthyStep(p, k)

\* the worker started on an uploads folder that holds the files, without
\* a legacy target
InitWatcher == Init /\ TARGET_URL = ""

\* the worker driven by its watcher and its scanner: the settling of a
\* written file, the events of the watcher, the ticks of the scanner
\* (setInterval, POLL_INTERVAL_MS) and the steps of every orchestration
\* are taken eventually
SpecWatcher ==
  InitWatcher /\ [][NextWatcher]_vars
    /\ \A p \in Paths :
         /\ WF_vars(Settle(p)) /\ WF_vars(WatcherAdd(p)) /\ WF_vars(WatcherChange(p))
         /\ WF_vars(ScanUploadsDir(p))
         /\ \A k \in Slots : WF_vars(HealthyStep(p, k))

----------------------------------------------------------------------------
\* JSON values: a type and a value; the members of an object and the items
\* of an array are sequences, so the order of the keys is kept

Str(s) == [type |-> "string", value |-> s]
Num(n) == [type |-> "number", value |-> ToString(n)]
True == [type |-> "boolean", value |-> "true"]
NullV == [type |-> "null", value |-> "null"]
UndefinedV == [type |-> "undefined", value |-> ""]
FunctionV == [type |-> "function", value |-> ""]
Obj(members) == [type |-> "object", value |-> members]
Arr(items) == [type |-> "array", value |-> items]
Member(key, val) == [k |-> key, v |-> val]

\* what JSON.stringify leaves out of an object and writes as null in an array
Unserializable(val) == val.type \in {"undefined", "function"}

RECURSIVE Joined(_, _)
Joined(texts, separator) ==
  IF texts = <<>> THEN ""
  ELSE IF Len(texts) = 1 THEN texts[1]
  ELSE texts[1] \o separator \o Joined(Tail(texts), separator)

\* JSON.stringify(value)
RECURSIVE Stringify(_)
Stringify(val) ==
  CASE val.type = "string" -> "\"" \o val.value \o "\""
    [] val.type = "object" ->
         LET kept == SelectSeq(val.value, LAMBDA m : ~Unserializable(m.v))
         IN  "{" \o Joined([j \in DOMAIN kept |->
                              "\"" \o kept[j].k \o "\":" \o Stringify(kept[j].v)], ",") \o "}"
    [] val.type = "array" ->
         "[" \o Joined([j \in DOMAIN val.value |->
                          IF Unserializable(val.value[j]) THEN "null"
                          ELSE Stringify(val.value[j])], ",") \o "]"
    [] OTHER -> val.value

\* JSON.parse of what JSON.stringify wrote: the value without what was left out
RECURSIVE Parsed(_)
Parsed(val) ==
  CASE val.type = "object" ->
         LET kept == SelectSeq(val.value, LAMBDA m : ~Unserializable(m.v))
         IN  Obj([j \in DOMAIN kept |-> Member(kept[j].k, Parsed(kept[j].v))])
    [] val.type = "array" ->
         Arr([j \in DOMAIN val.value |->
                IF Unserializable(val.value[j]) THEN NullV ELSE Parsed(val.value[j])])
    [] OTHER -> val

\* renderBodyTemplate: const vars = { messages, source_file_hash,
\* processed_at, byte_size, metadata }; a message has its timestamp only
\* when it is defined; metadata is undefined when the chat log has none
VarNames == <<"messages", "source_file_hash", "processed_at", "byte_size", "metadata">>
MessageVar(m) ==
  Obj(<<Member("role", Str(m.role)), Member("content", Str(m.content))>>
        \o (IF m.timestamp # Undefined THEN <<Member("timestamp", Str(m.timestamp))>> ELSE <<>>))
VarValue(result, name) ==
  CASE name = "messages" -> Arr([j \in DOMAIN result.messages |-> MessageVar(result.messages[j])])
    [] name = "source_file_hash" -> Str(result.source_file_hash)
    [] name = "processed_at" -> Str(result.processed_at)
    [] name = "byte_size" -> Num(result.byte_size)
    [] name = "metadata" -> result.metadata

\* varName in vars: the keys of vars and those vars inherits from
\* Object.prototype; an inherited key gives a function, __proto__ gives
\* Object.prototype itself, an object without enumerable keys
ObjectPrototypeKeys ==
  { "constructor", "toString", "toLocaleString", "valueOf", "hasOwnProperty",
    "isPrototypeOf", "propertyIsEnumerable", "__proto__", "__defineGetter__",
    "__defineSetter__", "__lookupGetter__", "__lookupSetter__" }
OwnKey(name) == \E j \in DOMAIN VarNames : VarNames[j] = name
InVars(name) == OwnKey(name) \/ name \in ObjectPrototypeKeys
Lookup(result, name) ==
  IF OwnKey(name) THEN VarValue(result, name)
  ELSE IF name = "__proto__" THEN Obj(<<>>)
  ELSE FunctionV

\* value.startsWith('${') && value.endsWith('}'), and value.slice(2, -1)
IsPlaceholder(text) ==
  /\ Len(text) >= 2 /\ SubSeq(text, 1, 2) = "${"
  /\ SubSeq(text, Len(text), Len(text)) = "}"
VarNameOf(text) == SubSeq(text, 3, Len(text) - 1)

\* the replacer applied to one value
Replaced(val, result) ==
  IF val.type = "string" /\ IsPlaceholder(val.value) /\ InVars(VarNameOf(val.value))
  THEN Lookup(result, VarNameOf(val.value))
  ELSE val
\* the variable whose value the replacer put in place of this value, if any
Substituted(val) ==
  IF val.type = "string" /\ IsPlaceholder(val.value) /\ OwnKey(VarNameOf(val.value))
  THEN {VarNameOf(val.value)} ELSE {}

\* JSON.stringify throws when a value is met inside itself
Circular == [type |-> "throw", value |-> "TypeError: Converting circular structure to JSON"]
Threw(val) == val.type = "throw"

\* JSON.stringify(template, replacer), as a value: the replacer is called
\* on every value, on those inside the values it returned too; stack holds
\* the variables whose value is being written
RECURSIVE Replace(_, _, _)
Replace(val, result, stack) ==
  LET new == Replaced(val, result)
      inner == stack \cup Substituted(val)
  IN  IF new.type \in {"object", "array"} /\ Substituted(val) \cap stack # {}
      THEN Circular
      ELSE IF new.type = "object"
      THEN LET members == [j \in DOMAIN new.value |->
                             Member(new.value[j].k, Replace(new.value[j].v, result, inner))]
           IN  IF \E j \in DOMAIN members : Threw(members[j].v) THEN Circular
               ELSE Obj(members)
      ELSE IF new.type = "array"
      THEN LET items == [j \in DOMAIN new.value |-> Replace(new.value[j], result, inner)]
           IN  IF \E j \in DOMAIN items : Threw(items[j]) THEN Circular
               ELSE Arr(items)
      ELSE new

\* what a call gave: a value it returned or an error it threw
Returned(text) == [threw |-> FALSE, value |-> text]
Thrown(text) == [threw |-> TRUE, value |-> text]

\* const rendered = JSON.parse(JSON.stringify(template, replacer));
\* return JSON.stringify(rendered)
renderBodyTemplate(template, result) ==
  LET written == Replace(template, result, {})
  IN  IF Threw(written) THEN Thrown(written.value)
      ELSE Returned(Stringify(Parsed(written)))

----------------------------------------------------------------------------
\* The delivery helpers called on their own

\* nowIso() at the time of the call
ProcessedAt == "2024-01-01T00:00:00.000Z"

\* const result: AnonymizationResult = { ... }: what is delivered; the chat
\* logs of the model have no metadata
Result(l) ==
  [source_file_hash |-> hashString(l.fileName),
   byte_size |-> l.byteSize,
   processed_at |-> ProcessedAt,
   messages |-> l.anonymizedMessages,
   metadata |-> UndefinedV]

\* The results the helpers are called with: no message, a message, a
\* message whose text is itself a placeholder, two messages; with and
\* without metadata
Anonymized(j, content) ==
  [id |-> Message("clean", j).id, role |-> Message("clean", j).role,
   content |-> content, timestamp |-> Message("clean", j).timestamp,
   entities_found |-> 0]
ResultMessages ==
  { <<>>,
    <<Anonymized(1, "hello")>>,
    <<Anonymized(1, "${byte_size}")>>,
    <<Anonymized(1, "hello"), Anonymized(2, "${messages}")>> }
Metadatas == { UndefinedV, Obj(<<Member("lang", Str("en"))>>) }
Results ==
  { [source_file_hash |-> hashString("a.json"), byte_size |-> 1024,
     processed_at |-> ProcessedAt, messages |-> msgs, metadata |-> meta] :
      msgs \in ResultMessages, meta \in Metadatas }

\* The body templates the helpers are called with: an object with a leaf,
\* with a leaf and a nested object, or with an array of one leaf
TemplateLeaves ==
  { Str("${messages}"), Str("${source_file_hash}"), Str("${processed_at}"),
    Str("${byte_size}"), Str("${metadata}"), Str("${other}"), Str("${constructor}"),
    Str("${__proto__}"), Str("${}"), Str("id-${byte_size}"), Str("text"),
    Num(7), True, NullV }
Templates ==
  { Obj(<<Member("a", leaf)>>) : leaf \in TemplateLeaves }
    \cup { Obj(<<Member("a", leaf), Member("b", Obj(<<Member("c", deep)>>))>>) :
             leaf \in TemplateLeaves, deep \in TemplateLeaves }
    \cup { Obj(<<Member("list", Arr(<<leaf>>))>>) : leaf \in TemplateLeaves }

\* A URL as it is written: scheme://host[:port]path[query]; a text without
\* a scheme is not a URL
Url(scheme, host, port, path, query) ==
  [scheme |-> scheme, host |-> host, port |-> port, path |-> path, query |-> query]
Written(url) ==
  (IF url.scheme = "" THEN "" ELSE url.scheme \o "://") \o url.host
    \o (IF url.port = "" THEN "" ELSE ":" \o url.port) \o url.path \o url.query
Hosts ==
  { "localhost", "LOCALHOST", "127.0.0.1", "[::1]", "example.com",
    "localhost.example.com", "host.docker.internal" }
Urls ==
  { Url(scheme, host, port, path, query) :
      scheme \in {"http", "https"}, host \in Hosts, port \in {"", "80", "5000"},
      path \in {"", "/x"}, query \in {"", "?a=1"} }
    \cup { Url("", "localhost", "", "", "") }

\* text.toLowerCase()
UpperLetters == "ABCDEFGHIJKLMNOPQRSTUVWXYZ"
LowerLetters == "abcdefghijklmnopqrstuvwxyz"
LowerChar(char) ==
  IF \E c \in 1..26 : SubSeq(UpperLetters, c, c) = char
  THEN LET c == CHOOSE c \in 1..26 : SubSeq(UpperLetters, c, c) = char
       IN  SubSeq(LowerLetters, c, c)
  ELSE char
RECURSIVE LowerCase(_)
LowerCase(text) ==
  IF Len(text) = 0 THEN ""
  ELSE IF Len(text) = 1 THEN LowerChar(text)
  ELSE LowerChar(SubSeq(text, 1, 1)) \o LowerCase(SubSeq(text, 2, Len(text)))

\* new URL(url): throws without a scheme; the host is put in lower case,
\* the default port of the scheme is dropped, an empty path is "/"
Lower(host) == LowerCase(host)
DefaultPort(scheme) == IF scheme = "http" THEN "80" ELSE "443"
ParsedUrl(url) ==
  [url EXCEPT !.host = Lower(@),
              !.port = IF @ = DefaultPort(url.scheme) THEN "" ELSE @,
              !.path = IF @ = "" THEN "/" ELSE @]
\* parsed.hostname: the host as it is serialized, an IPv6 address in brackets
hostname(parsed) == parsed.host

ContainerHost == "host.docker.internal"

normalizeLocalTargetUrl(url) ==
  IF url.scheme = "" THEN Written(url)
  ELSE LET parsed == ParsedUrl(url) IN
         IF hostname(parsed) \in {"localhost", "127.0.0.1", "::1"}
         THEN Written([parsed EXCEPT !.host = ContainerHost])
         ELSE Written(parsed)

\* JSON.stringify(result): the full AnonymizationResult, its keys in the
\* order the object was built with
MessageValue(m) ==
  Obj(<<Member("id", Str(m.id)), Member("role", Str(m.role)),
        Member("content", Str(m.content)),
        Member("timestamp", IF m.timestamp # Undefined THEN Str(m.timestamp) ELSE UndefinedV),
        Member("entities_found", Num(m.entities_found))>>)
ResultValue(result) ==
  Obj(<<Member("source_file_hash", Str(result.source_file_hash)),
        Member("byte_size", Num(result.byte_size)),
        Member("processed_at", Str(result.processed_at)),
        Member("messages", Arr([j \in DOMAIN result.messages |->
                                  MessageValue(result.messages[j])])),
        Member("metadata", result.metadata)>>)

\* the synthetic payload of POST /api/targets/:id/test
TestResult ==
  [source_file_hash |-> "test-source-hash", byte_size |-> 128,
   processed_at |-> ProcessedAt,
   messages |-> <<[id |-> "test-1", role |-> "user", content |-> "Sanitized test message",
                   timestamp |-> ProcessedAt, entities_found |-> 0]>>,
   metadata |-> Obj(<<Member("test", True), Member("source", Str("local-anonymizer"))>>)]

\* The targets the helpers are called with: each method, with no body
\* template, an empty one, and two with a placeholder
Methods == {"GET", "POST", "PUT"}
BodyTemplates ==
  { UndefinedV, Obj(<<>>), Obj(<<Member("messages", Str("${messages}"))>>),
    Obj(<<Member("size", Str("${byte_size}")), Member("lang", Str("en"))>>) }
TargetUrls ==
  { Url("http", "localhost", "5000", "/x", ""), Url("http", "127.0.0.1", "", "", ""),
    Url("https", "example.com", "", "/hook", ""),
    Url("http", "localhost.example.com", "", "/hook", ""),
    Url("http", "LOCALHOST", "8080", "", "") }
DefaultTimeoutMs == 15000
DeliveryTarget(url, method, bodyTemplate) ==
  [name |-> "T1", url |-> url, method |-> method, bodyTemplate |-> bodyTemplate,
   timeoutMs |-> DefaultTimeoutMs]
DeliveryTargets ==
  { DeliveryTarget(url, method, bodyTemplate) :
      url \in TargetUrls, method \in Methods, bodyTemplate \in BodyTemplates }

\* a GET sent with the body
FetchArgs_BodyOnGet(target, body) ==
  [url |-> normalizeLocalTargetUrl(target.url), method |-> target.method, body |-> body]

\* fetch(requestUrl, { method: target.method, headers,
\*                     body: target.method !== 'GET' ? body : undefined, signal })
FetchArgs(target, body) ==
  [url |-> normalizeLocalTargetUrl(target.url), method |-> target.method,
   body |-> IF target.method # "GET" THEN body ELSE Undefined]

\* const body = target.bodyTemplate ? renderBodyTemplate(...) : JSON.stringify(result)
\* (an object is truthy, an empty one too); a throw of the rendering leaves
\* the caller before the fetch
RequestBody(target, result) ==
  IF target.bodyTemplate # UndefinedV
  THEN renderBodyTemplate(target.bodyTemplate, result)
  ELSE Returned(Stringify(ResultValue(result)))
NoRequest == [url |-> "", method |-> "", body |-> Undefined]
RequestOf(target, result) ==
  IF RequestBody(target, result).threw THEN NoRequest
  ELSE FetchArgs(target, RequestBody(target, result).value)

\* The errors fetch rejects with: the name of the error, the code of its
\* cause, its message; a message can be long
RECURSIVE Repeated(_, _)
Repeated(text, n) == IF n = 0 THEN "" ELSE text \o Repeated(text, n - 1)
PreviewLimit == 200
LongMessage == Repeated("connect failed; ", PreviewLimit \div 16 + 1)
FetchErrors ==
  { [name |-> name, code |-> code, message |-> message] :
      name \in {"TypeError", "TimeoutError", "AbortError"},
      code \in {"", "ECONNREFUSED", "ENOTFOUND", "EAI_AGAIN", "ECONNRESET", "EPIPE"},
      message \in {"", "fetch failed", LongMessage} }

LocalhostHint == " In Docker, localhost points to the API container itself."

normalizeDeliveryError(err, targetUrl, timeoutMs) ==
  LET lowerUrl == LowerCase(targetUrl) IN
  IF err.name \in {"TimeoutError", "AbortError"}
  THEN [code |-> "DELIVERY_TIMEOUT",
        message |-> "Connection timed out after " \o ToString(timeoutMs) \o "ms"]
  ELSE IF err.code = "ECONNREFUSED"
  THEN [code |-> "DELIVERY_CONNECTION_REFUSED",
        message |-> "Connection refused by target host."
                      \o (IF Contains(lowerUrl, "://localhost") \/ Contains(lowerUrl, "://127.0.0.1")
                          THEN LocalhostHint ELSE "")]
  ELSE IF err.code \in {"ENOTFOUND", "EAI_AGAIN"}
  THEN [code |-> "DELIVERY_DNS_ERROR", message |-> "Could not resolve target hostname"]
  ELSE IF err.code = "ECONNRESET"
  THEN [code |-> "DELIVERY_CONNECTION_RESET", message |-> "Connection reset by target host"]
  ELSE [code |-> "DELIVERY_ERROR",
        message |-> IF err.message # "" THEN err.message ELSE "Connection failed"]

RenderBodyTemplate ==
  /\ applied = NotApplied
  /\ \E template \in Templates, result \in Results :
       applied' = [fn |-> "renderBodyTemplate", template |-> template, result |-> result,
                   out |-> renderBodyTemplate(template, result)]
  /\ UNCHANGED worker

NormalizeLocalTargetUrl ==
  /\ applied = NotApplied
  /\ \E url \in Urls :
       applied' = [fn |-> "normalizeLocalTargetUrl", url |-> url,
                   out |-> normalizeLocalTargetUrl(url)]
  /\ UNCHANGED worker

\* callTarget up to its fetch
CallTargetRequest ==
  /\ applied = NotApplied
  /\ \E target \in DeliveryTargets, result \in Results :
       applied' = [fn |-> "callTarget", target |-> target, result |-> result,
                   request |-> RequestOf(target, result)]
  /\ UNCHANGED worker

\* POST /api/targets/:id/test: the request it sends and, when the fetch
\* rejects, the error of its 502 reply
TestTarget ==
  /\ applied = NotApplied
  /\ \E target \in DeliveryTargets, err \in FetchErrors :
       LET request == RequestOf(target, TestResult) IN
         applied' = [fn |-> "testTarget", target |-> target, result |-> TestResult,
                     request |-> request, err |-> err,
                     out |-> normalizeDeliveryError(err, request.url, target.timeoutMs)]
  /\ UNCHANGED worker

NormalizeDeliveryError ==
  /\ applied = NotApplied
  /\ \E err \in FetchErrors, url \in TargetUrls :
       applied' = [fn |-> "normalizeDeliveryError", err |-> err, url |-> url,
                   out |-> normalizeDeliveryError(err, Written(url), DefaultTimeoutMs)]
  /\ UNCHANGED worker

NextHelpers ==
  \/ RenderBodyTemplate
  \/ NormalizeLocalTargetUrl
  \/ CallTargetRequest
  \/ TestTarget
  \/ NormalizeDeliveryError

\* the helpers called with the inputs above, the worker idle
InitHelpers == Init /\ TARGET_URL = ""
SpecHelpers == InitHelpers /\ [][NextHelpers]_vars

----------------------------------------------------------------------------
\* The runs routes of the control plane: POST /api/runs and
\* PATCH /api/runs/:id over the table processing_runs.  A column holds a
\* text, a number or NULL.

RunStatuses == {"queued", "processing", "anonymized", "delivered", "failed", "deleted"}
NumberFields ==
  { "deliveryTargetCount", "deliverySuccessCount", "deliveryFailureCount",
    "deliveryStatusCode", "deliveryDurationMs", "durationMs" }
UpdateFields == {"status", "errorCode", "errorMessageSafe", "presidioStats"} \cup NumberFields

\* UpdateBodySchema.safeParse(req.body).success
ValidUpdate(d) ==
  /\ DOMAIN d \subseteq UpdateFields
  /\ "status" \in DOMAIN d => d.status \in RunStatuses
  /\ \A field \in DOMAIN d \cap (NumberFields \ {"deliveryStatusCode"}) : d[field] >= 0

\* the value bound to the column of a field: a text, a number, and
\* JSON.stringify(d.presidioStats) for the stats
Bound(field, value) ==
  IF field \in NumberFields THEN Num(value)
  ELSE IF field = "presidioStats" THEN Str(Stringify(value))
  ELSE Str(value)

\* nowIso() at the n-th request
NowIso(n) == Str("2024-01-01T00:00:0" \o ToString(n) \o ".000Z")
\* uuidv4(): an id no row has
Uuid(rows) == "run-" \o ToString(Len(rows) + 1)

\* INSERT INTO processing_runs ... VALUES (id, now, now, d.sourceType, ...,
\* d.errorCode ?? null, ...): the row of a run the worker creates
Inserted(id, d, now) ==
  [id |-> id, created_at |-> now, updated_at |-> now,
   source_type |-> Str(d.sourceType), source_file_name |-> Str(d.sourceFileName),
   source_file_size |-> Num(d.sourceFileSize), status |-> Str(d.status),
   error_code |-> NullV, error_message_safe |-> NullV, presidio_stats |-> NullV,
   delivery_target_count |-> NullV, delivery_success_count |-> NullV,
   delivery_failure_count |-> NullV, delivery_status_code |-> NullV,
   delivery_duration_ms |-> NullV, duration_ms |-> NullV]

\* d.field ?? existing.column (for presidioStats: d.presidioStats !==
\* undefined ? JSON.stringify(d.presidioStats) : existing.presidio_stats)
Coalesce(d, field, existing) ==
  IF field \in DOMAIN d THEN Bound(field, d[field]) ELSE existing

\* the stats column written as POST /api/runs writes it
UpdatedRow_StatsFromBody(existing, d, now) ==
  [existing EXCEPT
     !.updated_at = now,
     !.status = Coalesce(d, "status", @),
     !.error_code = Coalesce(d, "errorCode", @),
     !.error_message_safe = Coalesce(d, "errorMessageSafe", @),
     !.presidio_stats = Coalesce(d, "presidioStats", NullV),
     !.delivery_target_count = Coalesce(d, "deliveryTargetCount", @),
     !.delivery_success_count = Coalesce(d, "deliverySuccessCount", @),
     !.delivery_failure_count = Coalesce(d, "deliveryFailureCount", @),
     !.delivery_status_code = Coalesce(d, "deliveryStatusCode", @),
     !.delivery_duration_ms = Coalesce(d, "deliveryDurationMs", @),
     !.duration_ms = Coalesce(d, "durationMs", @)]

\* UPDATE processing_runs SET updated_at = ?, status = ?, ... WHERE id = ?
UpdatedRow(existing, d, now) ==
  [existing EXCEPT
     !.updated_at = now,
     !.status = Coalesce(d, "status", @),
     !.error_code = Coalesce(d, "errorCode", @),
     !.error_message_safe = Coalesce(d, "errorMessageSafe", @),
     !.presidio_stats = Coalesce(d, "presidioStats", @),
     !.delivery_target_count = Coalesce(d, "deliveryTargetCount", @),
     !.delivery_success_count = Coalesce(d, "deliverySuccessCount", @),
     !.delivery_failure_count = Coalesce(d, "deliveryFailureCount", @),
     !.delivery_status_code = Coalesce(d, "deliveryStatusCode", @),
     !.delivery_duration_ms = Coalesce(d, "deliveryDurationMs", @),
     !.duration_ms = Coalesce(d, "durationMs", @)]

\* SELECT * FROM processing_runs WHERE id = ?
RowsWithId(rows, id) == {j \in DOMAIN rows : rows[j].id = id}

\* the bodies the routes are called with: those of the worker's updates,
\* an update of one number to 0, an empty body, and a body the schema rejects
StatsFound == Obj(<<Member("EMAIL_ADDRESS", Num(2))>>)
CreateBody ==
  [sourceType |-> "folderUpload", sourceFileName |-> "sha256:" \o hashString("a.json"),
   sourceFileSize |-> 1024, status |-> "queued"]
UpdateBodies ==
  { [status |-> "processing"],
    [status |-> "anonymized", presidioStats |-> StatsFound],
    [status |-> "delivered", deliveryStatusCode |-> 201, deliveryDurationMs |-> 5,
     durationMs |-> 9],
    [status |-> "failed", errorCode |-> "DELIVERY_ERROR",
     errorMessageSafe |-> "Delivery error: fetch failed", deliveryDurationMs |-> 5,
     durationMs |-> 9],
    [status |-> "deleted"],
    [durationMs |-> 0],
    [status |-> "done"],
    <<>> }
\* the ids of the rows the table can hold, and one no row has
RequestIds == { "run-" \o ToString(n) : n \in 1..MaxRuns } \cup {"run-0"}

\* POST /api/runs
PostRun ==
  /\ Len(processing_runs) < MaxRuns /\ handled.now < MaxRequests
  /\ LET now == handled.now + 1
         id == Uuid(processing_runs)
     IN  /\ processing_runs' = Append(processing_runs, Inserted(id, CreateBody, NowIso(now)))
         /\ handled' = [route |-> "POST /api/runs", now |-> now, id |-> id,
                        body |-> CreateBody, status |-> 201]
  /\ UNCHANGED <<inFlight, procs, exists, TARGET_URL, calls, twin, auditDown, appendFailed,
                 applied, watch>>

\* PATCH /api/runs/:id
PatchRun ==
  /\ handled.now < MaxRequests
  /\ \E id \in RequestIds, d \in UpdateBodies :
       LET now == handled.now + 1
           found == RowsWithId(processing_runs, id)
           status == IF ~ValidUpdate(d) THEN 400 ELSE IF found = {} THEN 404 ELSE 200
       IN  /\ handled' = [route |-> "PATCH /api/runs/:id", now |-> now, id |-> id,
                          body |-> d, status |-> status]
           /\ processing_runs' =
                IF status = 200
                THEN [j \in DOMAIN processing_runs |->
                        IF j \in found
                        THEN UpdatedRow(processing_runs[j], d, NowIso(now))
                        ELSE processing_runs[j]]
                ELSE processing_runs
  /\ UNCHANGED <<inFlight, procs, exists, TARGET_URL, calls, twin, auditDown, appendFailed,
                 applied, watch>>

NextServer == PostRun \/ PatchRun
InitServer == Init /\ TARGET_URL = ""
SpecServer == InitServer /\ [][NextServer]_vars

----------------------------------------------------------------------------
\* Reading the requests of an orchestration

Running(p) == procs[p] # <<>>
Finished(p) == procs[p] = <<>> /\ calls[p] # <<>>

IsPrefix(s, t) == Len(s) <= Len(t) /\ SubSeq(t, 1, Len(s)) = s

\* C1: for any file path at most one orchestration is in flight: a path is
\* in the in-flight set exactly while its one processFile call runs, and a
\* step taken while a path is in flight starts no further orchestration for
\* it and does not start its request log afresh (a detection event for it
\* calls nothing).
C1_OneOrchestrationPerPath ==
  [][\A p \in Paths :
       /\ Len(procs'[p]) <= 1
       /\ (p \in inFlight' <=> Len(procs'[p]) = 1)
       /\ p \in inFlight => /\ Len(procs'[p]) <= Len(procs[p])
                            /\ IsPrefix(calls[p], calls'[p])]_vars

C1_Witness ==
  /\ JsonPath \in inFlight
  /\ Len(procs[JsonPath]) = 1
  /\ Len(calls[JsonPath]) >= 3


IsCreate(req) == req.op = "POST /api/runs"
IsUpdate(req) == req.op = "PATCH /api/runs"
IsLog(req) == req.op = "POST /api/logs"
IsGetTargets(req) == req.op = "GET /api/targets"
IsDelivery(req) == req.to \in {"target", "legacy"}
Is2xx(status) == status \in 200..299

\* the run create and the run updates of an orchestration, and their statuses
StatusWrites(p) == SelectSeq(calls[p], LAMBDA req : IsCreate(req) \/ IsUpdate(req))
StatusSeq(p) == [j \in DOMAIN StatusWrites(p) |-> StatusWrites(p)[j].body.status]

Some(p, Test(_)) == \E j \in DOMAIN calls[p] : Test(calls[p][j])
RunCreated(p) == Some(p, LAMBDA req : IsCreate(req) /\ req.ok)
ConfigOf(p) == calls[p][1].res
Updated(p, status) == Some(p, LAMBDA req : IsUpdate(req) /\ req.body.status = status)
FailedWith(p, errorCode) ==
  Some(p, LAMBDA req : /\ IsUpdate(req)
                       /\ req.body.status = "failed"
                       /\ req.body.errorCode = errorCode)
Appended(p, eventType) == Some(p, LAMBDA req : IsLog(req) /\ req.body.eventType = eventType)
UnlinkIssued(p) == Some(p, LAMBDA req : req.op = "unlink")
Unlinked(p) == Some(p, LAMBDA req : req.op = "unlink" /\ req.ok)

\* the order of the run's statuses
Chain ==
  { <<"queued", "processing">>, <<"processing", "anonymized">>,
    <<"anonymized", "delivered">>, <<"delivered", "deleted">> }

\* C2: the statuses written for a run start with queued; every status but
\* failed is the successor, in queued -> processing -> anonymized ->
\* delivered -> deleted, of the one written before it; failed is written
\* after processing, after anonymized, or by the delivery step (its
\* DELIVERY_ERROR); and nothing is written after failed or after deleted.
C2_StatusOrder ==
  \A p \in Paths :
    LET w == StatusWrites(p)
        st == StatusSeq(p)
    IN  /\ st # <<>> => st[1] = "queued"
        /\ \A j \in 2..Len(st) :
             /\ st[j - 1] \notin {"failed", "deleted"}
             /\ st[j] # "failed" => <<st[j - 1], st[j]>> \in Chain
             /\ st[j] = "failed" =>
                  \/ st[j - 1] \in {"processing", "anonymized"}
                  \/ w[j].body.errorCode = "DELIVERY_ERROR"

C2_Witness ==
  /\ Finished(JsonPath)
  /\ StatusSeq(JsonPath) = <<"queued", "processing", "anonymized", "delivered", "deleted">>

PresidioFailed(p) == Some(p, LAMBDA req : req.to = "presidio" /\ ~req.ok)
DeliveryFailed(p) == Some(p, LAMBDA req : IsDelivery(req) /\ ~Is2xx(req.status))
NoCallTo(p, services) == ~Some(p, LAMBDA req : req.to \in services)

\* C3: when analyze or anonymize has failed for a message, the run (if one
\* was created) is updated to failed with errorCode PRESIDIO_ERROR and a
\* run_failed event is appended; no request to the entity-detection service
\* follows the failed one, and the orchestration makes no analysis-service
\* call and no delivery call.
C3_PresidioFailureAborts ==
  \A p \in Paths :
    Finished(p) /\ PresidioFailed(p) =>
      /\ RunCreated(p) => FailedWith(p, "PRESIDIO_ERROR") /\ Appended(p, "run_failed")
      /\ \A j \in DOMAIN calls[p] :
           calls[p][j].to = "presidio" /\ ~calls[p][j].ok =>
             \A m \in (j + 1)..Len(calls[p]) : calls[p][m].to # "presidio"
      /\ NoCallTo(p, {"analysis", "target", "legacy"})

\* the fixed strings of the failure branches
HardcodedMessages ==
  {"Could not read file", "Invalid schema", "Presidio error", "Delivery error"}

\* C5: every errorMessageSafe written to a run is one of a fixed set of
\* hardcoded strings, in every failure branch.
C5_HardcodedErrorMessages ==
  \A p \in Paths : \A j \in DOMAIN calls[p] :
    LET req == calls[p][j] IN
      IsUpdate(req) /\ "errorMessageSafe" \in DOMAIN req.body =>
        req.body.errorMessageSafe \in HardcodedMessages

\* the ids of the targets called, in the order of the calls
CalledIds(p) ==
  LET sent == SelectSeq(calls[p], LAMBDA req : req.to = "target")
  IN  [j \in DOMAIN sent |-> sent[j].id]
\* the ids of the enabled targets the control plane held, in configured order
EnabledIds(req) == [j \in DOMAIN req.enabled |-> req.enabled[j].id]
Range(s) == { s[j] : j \in DOMAIN s }

\* C6: with two or more enabled targets fetched, the delivery step calls
\* every one of them, in the order of the configured list, and a call that
\* fails has the run (if one was created) updated to failed.
C6_EveryTargetCalledInOrder ==
  \A p \in Paths : \A g \in DOMAIN calls[p] :
    LET req == calls[p][g] IN
      Finished(p) /\ IsGetTargets(req) /\ req.res = "ok" /\ Len(req.enabled) >= 2 =>
        /\ Range(EnabledIds(req)) \subseteq Range(CalledIds(p))
        /\ \A j \in 2..Len(CalledIds(p)) : CalledIds(p)[j - 1] < CalledIds(p)[j]
        /\ DeliveryFailed(p) /\ RunCreated(p) => Updated(p, "failed")

\* C7: a run is updated to delivered only after every target that was
\* enabled in the control plane when the list was asked for has been called
\* and has answered 2xx, whatever the answer to the request for the list.
C7_DeliveredOnlyAfterEveryTarget ==
  \A p \in Paths : \A g, d \in DOMAIN calls[p] :
    /\ g < d
    /\ IsGetTargets(calls[p][g])
    /\ IsUpdate(calls[p][d])
    /\ calls[p][d].body.status = "delivered"
    => \A t \in Range(EnabledIds(calls[p][g])) :
         \E m \in (g + 1)..(d - 1) :
           /\ calls[p][m].to = "target"
           /\ calls[p][m].id = t
           /\ Is2xx(calls[p][m].status)

\* C8: when a delivery call has answered non-2xx or failed at transport
\* level, the run (if one was created) is updated to failed with errorCode
\* DELIVERY_ERROR and a run_failed event is appended; the file is unlinked
\* if and only if deleteAfterFailure is true; and the cleanup of the success
\* path does not run (no deleted status, no cleanup_deleted event).
C8_DeliveryFailureHandled ==
  \A p \in Paths :
    Finished(p) /\ DeliveryFailed(p) =>
      /\ RunCreated(p) => FailedWith(p, "DELIVERY_ERROR") /\ Appended(p, "run_failed")
      /\ UnlinkIssued(p) <=> ConfigOf(p).deleteAfterFailure
      /\ ~Updated(p, "deleted")
      /\ ~Appended(p, "cleanup_deleted")

\* C9: when the content is not a valid chat log, the statuses written for
\* the run (if one was created) end with processing, failed, the failure
\* having errorCode INVALID_SCHEMA; no entity-detection, analysis or delivery
\* call is made; and the file is unlinked if and only if deleteAfterFailure
\* is true.
C9_InvalidSchemaHandled ==
  \A p \in Paths :
    Finished(p) /\ Some(p, LAMBDA req : req.op = "readFile" /\ req.res = "invalid") =>
      /\ RunCreated(p) =>
           /\ FailedWith(p, "INVALID_SCHEMA")
           /\ SubSeq(StatusSeq(p), 2, Len(StatusSeq(p))) = <<"processing", "failed">>
      /\ NoCallTo(p, {"presidio", "analysis", "target", "legacy"})
      /\ UnlinkIssued(p) <=> ConfigOf(p).deleteAfterFailure

\* the delivery step has made a call and no call of it failed: every target
\* of the loop, or the legacy target, answered 2xx
DeliverySucceeded(p) ==
  /\ Some(p, IsDelivery)
  /\ ~DeliveryFailed(p)

\* C10: after a successful delivery, with deleteAfterSuccess the file is
\* unlinked and the last status written for the run is deleted; without it
\* the orchestration never unlinks the file and the last status written is
\* delivered.
C10_CleanupFollowsPolicy ==
  \A p \in Paths :
    Finished(p) /\ DeliverySucceeded(p) =>
      LET st == StatusSeq(p) IN
        IF ConfigOf(p).deleteAfterSuccess
        THEN /\ UnlinkIssued(p)
             /\ Unlinked(p) /\ RunCreated(p) => st[Len(st)] = "deleted"
        ELSE /\ ~UnlinkIssued(p)
             /\ RunCreated(p) => st[Len(st)] = "delivered"

Accepted(p, status) ==
  Some(p, LAMBDA req : IsUpdate(req) /\ req.body.status = status /\ req.ok)
Rejected(p, status) ==
  Some(p, LAMBDA req : IsUpdate(req) /\ req.body.status = status /\ ~req.ok)
CreateFailed(p) == Some(p, LAMBDA req : IsCreate(req) /\ ~req.ok)
ReadValid(p) == Some(p, LAMBDA req : req.op = "readFile" /\ req.res = "valid")
LastStatus(p) == StatusSeq(p)[Len(StatusSeq(p))]

\* the index of the last run create or update before request j (0: none)
LastWriteBefore(p, j) ==
  LET W == { m \in 1..(j - 1) : IsCreate(calls[p][m]) \/ IsUpdate(calls[p][m]) }
  IN  IF W = {} THEN 0 ELSE CHOOSE m \in W : \A n \in W : n <= m

\* the unlink of the cleanup step has failed: the one that follows the
\* accepted update to delivered
CleanupUnlinkFailed(p) ==
  \E j \in DOMAIN calls[p] :
    /\ calls[p][j].op = "unlink"
    /\ ~calls[p][j].ok
    /\ LastWriteBefore(p, j) > 0
    /\ calls[p][LastWriteBefore(p, j)].body.status = "delivered"
    /\ calls[p][LastWriteBefore(p, j)].ok

\* C11: when the unlink of the cleanup step fails, no update to failed and
\* none to deleted is written, the last status written stays delivered, and
\* no cleanup_deleted event is appended.
C11_CleanupFailureKeepsDelivered ==
  \A p \in Paths :
    CleanupUnlinkFailed(p) =>
      /\ LastStatus(p) = "delivered"
      /\ ~Updated(p, "failed")
      /\ ~Updated(p, "deleted")
      /\ ~Appended(p, "cleanup_deleted")

C11_Witness ==
  /\ Finished(JsonPath)
  /\ CleanupUnlinkFailed(JsonPath)
  /\ exists[JsonPath]

\* the orchestration ended in one of its failure branches, or would have
RunFailed(p) == ~ReadValid(p) \/ PresidioFailed(p) \/ DeliveryFailed(p)

\* C12: when the run creation has failed, the orchestration sends no run
\* update and no audit append, and still reads the file, goes on to the
\* delivery step when the file is valid and anonymized, and unlinks the file
\* by deleteAfterFailure when it failed and by deleteAfterSuccess when not.
C12_NoRunStillProcessed ==
  \A p \in Paths :
    CreateFailed(p) =>
      /\ ~Some(p, IsUpdate)
      /\ ~Some(p, IsLog)
      /\ Finished(p) =>
           /\ Some(p, LAMBDA req : req.op = "readFile")
           /\ ReadValid(p) /\ ~PresidioFailed(p) => Some(p, IsGetTargets)
           /\ UnlinkIssued(p) <=>
                IF RunFailed(p) THEN ConfigOf(p).deleteAfterFailure
                ELSE ConfigOf(p).deleteAfterSuccess

C12_Witness ==
  /\ Finished(JsonPath)
  /\ CreateFailed(JsonPath)
  /\ Some(JsonPath, LAMBDA req : req.op = "anonymize" /\ req.ok)
  /\ Some(JsonPath, LAMBDA req : req.to = "target" /\ Is2xx(req.status))
  /\ Unlinked(JsonPath)

\* C13: a rejected run update does not end the orchestration: after a
\* rejected update to anonymized the delivery step is still reached, after
\* a rejected update to failed the file is still unlinked under
\* deleteAfterFailure, and after a rejected update to delivered the file is
\* still unlinked under deleteAfterSuccess.
C13_UpdateFailureDoesNotAbort ==
  \A p \in Paths :
    Finished(p) =>
      /\ Rejected(p, "anonymized") => Some(p, IsGetTargets)
      /\ Rejected(p, "failed") /\ ConfigOf(p).deleteAfterFailure => UnlinkIssued(p)
      /\ Rejected(p, "delivered") /\ ConfigOf(p).deleteAfterSuccess => UnlinkIssued(p)

\* C14: an orchestration in which audit appends have failed goes on as one
\* in which none has: after an accepted update to anonymized the delivery
\* step is reached, after an accepted update to failed the file is unlinked
\* under deleteAfterFailure, and after an accepted update to delivered no
\* update to failed is written and the file is unlinked under
\* deleteAfterSuccess.
C14_AppendFailureChangesNothing ==
  \A p \in Paths :
    appendFailed[p] /\ Finished(p) =>
      /\ Accepted(p, "anonymized") => Some(p, IsGetTargets)
      /\ Accepted(p, "failed") /\ ConfigOf(p).deleteAfterFailure => UnlinkIssued(p)
      /\ Accepted(p, "delivered") =>
           /\ ~Updated(p, "failed")
           /\ ConfigOf(p).deleteAfterSuccess => UnlinkIssued(p)

C14_Witness ==
  /\ Finished(JsonPath)
  /\ appendFailed[JsonPath]
  /\ Accepted(JsonPath, "delivered")
  /\ Some(JsonPath, IsDelivery)
  /\ Unlinked(JsonPath)

AnalysisFailed(p) == Some(p, LAMBDA req : req.to = "analysis" /\ ~req.ok)
LastAnalysis(p) ==
  CHOOSE j \in DOMAIN calls[p] :
    /\ calls[p][j].to = "analysis"
    /\ \A m \in DOMAIN calls[p] : calls[p][m].to = "analysis" => m <= j

\* C15: when a sentiment or toxicity call has failed, the requests that
\* follow the analysis calls are the delivery_started append (if there is a
\* run) and the request for the targets, and an update to failed is only
\* written with DELIVERY_ERROR.
C15_AnalysisFailureNotFatal ==
  \A p \in Paths :
    Finished(p) /\ AnalysisFailed(p) =>
      LET a == LastAnalysis(p)
          g == IF RunCreated(p) THEN a + 2 ELSE a + 1
      IN  /\ Len(calls[p]) >= g
          /\ IsGetTargets(calls[p][g])
          /\ RunCreated(p) => /\ IsLog(calls[p][a + 1])
                              /\ calls[p][a + 1].body.eventType = "delivery_started"
          /\ \A j \in DOMAIN calls[p] :
               IsUpdate(calls[p][j]) /\ calls[p][j].body.status = "failed" =>
                 calls[p][j].body.errorCode = "DELIVERY_ERROR"

C15_Witness ==
  /\ Finished(JsonPath)
  /\ Some(JsonPath, LAMBDA req : req.to = "analysis" /\ req.op = "sentiment" /\ ~req.ok)
  /\ Some(JsonPath, LAMBDA req : req.to = "analysis" /\ req.op = "toxicity" /\ ~req.ok)
  /\ Some(JsonPath, LAMBDA req : req.to = "target" /\ Is2xx(req.status))
  /\ Accepted(JsonPath, "delivered")

\* C16: a run is created only for a path with an accepted extension and a
\* size within maxFileSizeBytes; an orchestration of a larger file creates
\* no run and appends no event; a path with another extension has no request
\* sent at all.
C16_GateBeforeRun ==
  \A p \in Paths :
    /\ \A j \in DOMAIN calls[p] :
         IsCreate(calls[p][j]) =>
           /\ extname(p) \in ACCEPTED_EXTENSIONS
           /\ calls[p][j].body.sourceFileSize <= ConfigOf(p).maxFileSizeBytes
    /\ extname(p) \notin ACCEPTED_EXTENSIONS => calls[p] = <<>>
    /\ \A k \in DOMAIN procs[p] :
         procs[p][k].byteSize > procs[p][k].config.maxFileSizeBytes =>
           ~Some(p, IsCreate) /\ ~Some(p, IsLog)

C16_Witness ==
  /\ Len(procs[JsonPath]) = 1
  /\ procs[JsonPath][1].byteSize > procs[JsonPath][1].config.maxFileSizeBytes
  /\ procs[JsonPath][1].pc = "finally"
  /\ Len(calls[JsonPath]) = 1

ConfigFailed(p) == calls[p] # <<>> /\ ~calls[p][1].ok

\* C17: in an orchestration whose config request failed, the settings are
\* the 10 MB limit, no deletion, the replace operator and no analysis
\* service: no run is created for a larger file, no analysis call is made
\* and the file is never unlinked.
C17_SafeDefaults ==
  \A p \in Paths :
    ConfigFailed(p) =>
      /\ \A k \in DOMAIN procs[p] :
           procs[p][k].config = Config(FALSE, FALSE, NoAnalysis)
      /\ \A j \in DOMAIN calls[p] :
           IsCreate(calls[p][j]) => calls[p][j].body.sourceFileSize <= 10 * 1024 * 1024
      /\ NoCallTo(p, {"analysis"})
      /\ ~UnlinkIssued(p)

C17_Witness ==
  /\ Finished(JsonPath)
  /\ ConfigFailed(JsonPath)
  /\ Accepted(JsonPath, "delivered")
  /\ Some(JsonPath, IsDelivery)

\* C18: when the control plane holds no enabled target and TARGET_URL is
\* not set, no delivery call is made, the update to delivered is written
\* for the run, and it has no deliveryStatusCode.
C18_NoTargetStillDelivered ==
  \A p \in Paths : \A g \in DOMAIN calls[p] :
    IsGetTargets(calls[p][g]) /\ calls[p][g].enabled = <<>> /\ TARGET_URL = "" =>
      /\ NoCallTo(p, {"target", "legacy"})
      /\ Finished(p) /\ RunCreated(p) => Updated(p, "delivered")
      /\ \A j \in DOMAIN calls[p] :
           IsUpdate(calls[p][j]) /\ calls[p][j].body.status = "delivered" =>
             "deliveryStatusCode" \notin DOMAIN calls[p][j].body

C18_Witness ==
  /\ Finished(JsonPath)
  /\ TARGET_URL = ""
  /\ Some(JsonPath, LAMBDA req : IsGetTargets(req) /\ req.enabled = <<>> /\ req.res = "ok")
  /\ Accepted(JsonPath, "delivered")

\* C19: in an orchestration where the control plane holds an enabled
\* target, the legacy target receives no request.
C19_LegacyOnlyWithoutTargets ==
  \A p \in Paths : \A g \in DOMAIN calls[p] :
    IsGetTargets(calls[p][g]) /\ calls[p][g].enabled # <<>> =>
      NoCallTo(p, {"legacy"})

\* the positions of processFile after the anonymize loop
PostLoop ==
  { "updAnonymized", "sentiment", "toxicity", "fetchTargets", "callTarget",
    "legacy", "updDelivered", "unlink", "updDeleted" }
NoFindings(chatLog) == \A j \in DOMAIN chatLog : Findings(chatLog[j].content) = <<>>

\* C20: a message for which analyze returns no findings is pushed with its
\* content, id, role and timestamp unchanged and entities_found = 0; for a
\* chat log of N such messages anonymize is never called and the result has
\* exactly N messages.
C20_CleanMessagesPassThrough ==
  \A p \in Paths : \A k \in DOMAIN procs[p] :
    LET l == procs[p][k] IN
      /\ \A j \in DOMAIN l.anonymizedMessages :
           Findings(l.chatLog[j].content) = <<>> =>
             /\ l.anonymizedMessages[j].content = l.chatLog[j].content
             /\ l.anonymizedMessages[j].id = l.chatLog[j].id
             /\ l.anonymizedMessages[j].role = l.chatLog[j].role
             /\ l.anonymizedMessages[j].timestamp = l.chatLog[j].timestamp
             /\ l.anonymizedMessages[j].entities_found = 0
      /\ NoFindings(l.chatLog) => ~Some(p, LAMBDA req : req.op = "anonymize")
      /\ l.pc \in PostLoop => Len(l.anonymizedMessages) = Len(l.chatLog)

C20_Witness ==
  \E k \in DOMAIN procs[JsonPath] :
    LET l == procs[JsonPath][k] IN
      /\ l.pc = "fetchTargets"
      /\ Len(l.chatLog) >= 2
      /\ NoFindings(l.chatLog)
      /\ Len(l.anonymizedMessages) = Len(l.chatLog)

\* the Presidio requests of an orchestration, in the order they were sent
PresidioCalls(p) == SelectSeq(calls[p], LAMBDA req : req.to = "presidio")

\* what the loop pushes for a message: the anonymizer's answer when the
\* analyzer found something, the message's own text otherwise
AnonymizedForm(text, operator) ==
  IF Findings(text) = <<>> THEN text
  ELSE AnonymizedText(text, Findings(text), operator)

\* C21: the messages are sent to Presidio one at a time in the order of the
\* file (the requests of message i come before those of message i + 1, and
\* its analyze before its anonymize, each with the text of that message),
\* the i-th output message is the anonymized form of the i-th input message
\* with the same id and role, and after the loop the output has the length
\* of the input.
C21_MessageOrderPreserved ==
  \A p \in Paths : \A k \in DOMAIN procs[p] :
    LET l == procs[p][k]
        sent == PresidioCalls(p)
    IN  /\ \A j \in DOMAIN l.anonymizedMessages :
             /\ j \in DOMAIN l.chatLog
             /\ l.anonymizedMessages[j].id = l.chatLog[j].id
             /\ l.anonymizedMessages[j].role = l.chatLog[j].role
             /\ l.anonymizedMessages[j].content =
                  AnonymizedForm(l.chatLog[j].content, l.config.anonymizationOperator)
        /\ \A a \in DOMAIN sent :
             /\ sent[a].i \in DOMAIN l.chatLog
             /\ sent[a].text = l.chatLog[sent[a].i].content
        /\ \A a \in DOMAIN sent : \A b \in DOMAIN sent :
             a < b => \/ sent[a].i < sent[b].i
                      \/ /\ sent[a].i = sent[b].i
                         /\ b = a + 1
                         /\ sent[a].op = "analyze"
                         /\ sent[b].op = "anonymize"
        /\ l.pc \in PostLoop => Len(l.anonymizedMessages) = Len(l.chatLog)

C21_Witness ==
  \E k \in DOMAIN procs[JsonPath] :
    LET l == procs[JsonPath][k] IN
      /\ l.pc = "fetchTargets"
      /\ Len(l.chatLog) = 2
      /\ Len(PresidioCalls(JsonPath)) = 4
      /\ l.anonymizedMessages[1].content # l.anonymizedMessages[2].content
      /\ l.anonymizedMessages[2].content # l.chatLog[2].content

\* the positions of processFile where the payload is handed to a target
Delivering == {"callTarget", "legacy"}

HexDigits == {"0", "1", "2", "3", "4", "5", "6", "7", "8", "9", "a", "b", "c", "d", "e", "f"}
IsSha256Hex(str) ==
  Len(str) = 64 /\ \A c \in 1..64 : SubSeq(str, c, c) \in HexDigits

\* processFile has just sent the run creation of this path
JustCreated(p) ==
  \E k \in DOMAIN procs[p] :
    \/ procs[p][k].pc = "updProcessing"
    \/ procs[p][k].pc = "readFile" /\ procs[p][k].runId = Null

\* the texts a request carries beside the name the run is created under
TextsOf(req) ==
  IF IsUpdate(req) /\ "errorMessageSafe" \in DOMAIN req.body
       THEN {req.body.errorMessageSafe}
  ELSE IF req.to = "presidio" THEN {req.text}
  ELSE {}

\* C22: the sourceFileName of a created run is "sha256:" followed by the
\* 64 hexadecimal digits of the digest of the file's base name, the
\* source_file_hash of the delivered payload is that same digest, a path
\* always gets the same digest, and neither the file's name nor its path is
\* in the text of any request or of the payload.
C22_OnlyTheDigestLeaves ==
  \A p \in Paths :
    LET digest == hashString(basename(p)) IN
      /\ JustCreated(p) =>
           /\ IsSha256Hex(digest)
           /\ ~Contains(digest, basename(p)) /\ ~Contains(digest, p.dir)
      /\ \A j \in DOMAIN calls[p] :
           /\ IsCreate(calls[p][j]) => calls[p][j].body.sourceFileName = "sha256:" \o digest
           /\ \A text \in TextsOf(calls[p][j]) :
                ~Contains(text, basename(p)) /\ ~Contains(text, p.dir)
      /\ \A k \in DOMAIN procs[p] :
           procs[p][k].pc \in Delivering =>
             /\ Result(procs[p][k]).source_file_hash = digest
             /\ \A j \in DOMAIN Result(procs[p][k]).messages :
                  /\ ~Contains(Result(procs[p][k]).messages[j].content, basename(p))
                  /\ ~Contains(Result(procs[p][k]).messages[j].content, p.dir)

C22_Witness ==
  /\ RunCreated(JsonPath)
  /\ \E k \in DOMAIN procs[JsonPath] :
       /\ procs[JsonPath][k].pc = "callTarget"
       /\ procs[JsonPath][k].anonymizedMessages # <<>>


\* C23: every orchestration eventually finishes, and when it does its path
\* leaves the in-flight set: a path that is in flight is eventually not in
\* flight.
C23_EveryOrchestrationFinishes ==
  \A p \in Paths : (p \in inFlight) ~> (p \notin inFlight)

\* the rendering the claim describes: a string leaf that is exactly ${name},
\* name one of the five variables, becomes the value of the result; every
\* other leaf and the keys stay
RECURSIVE Rendering(_, _)
Rendering(val, result) ==
  CASE val.type = "object" ->
         Obj([j \in DOMAIN val.value |->
                Member(val.value[j].k, Rendering(val.value[j].v, result))])
    [] val.type = "array" ->
         Arr([j \in DOMAIN val.value |-> Rendering(val.value[j], result)])
    [] val.type = "string" /\ IsPlaceholder(val.value) /\ OwnKey(VarNameOf(val.value)) ->
         VarValue(result, VarNameOf(val.value))
    [] OTHER -> val

\* C24: renderBodyTemplate gives the template with each string leaf that is
\* exactly ${name}, for name one of messages, source_file_hash,
\* processed_at, byte_size and metadata, replaced by that value of the
\* result, and with every other leaf and the key structure as they are.
C24_TemplateRendering ==
  applied.fn = "renderBodyTemplate" =>
    applied.out = Returned(Stringify(Rendering(applied.template, applied.result)))

\* the loopback hosts as they are written in a URL
LoopbackHosts == {"localhost", "127.0.0.1", "[::1]"}

\* C25: normalizeLocalTargetUrl gives, for a URL whose host is localhost,
\* 127.0.0.1 or ::1, the URL with the container host in its place and the
\* same scheme, port, path and query, and for every other URL the same URL
\* (the same URL read as: the same after new URL has parsed it).
C25_LoopbackRewritten ==
  applied.fn = "normalizeLocalTargetUrl" /\ applied.url.scheme # "" =>
    LET parsed == ParsedUrl(applied.url) IN
      IF Lower(applied.url.host) \in LoopbackHosts
      THEN applied.out = Written([parsed EXCEPT !.host = ContainerHost])
      ELSE applied.out = Written(parsed)

CodeOfCause(err) ==
  CASE err.name \in {"TimeoutError", "AbortError"} -> "DELIVERY_TIMEOUT"
    [] err.code = "ECONNREFUSED" -> "DELIVERY_CONNECTION_REFUSED"
    [] err.code \in {"ENOTFOUND", "EAI_AGAIN"} -> "DELIVERY_DNS_ERROR"
    [] err.code = "ECONNRESET" -> "DELIVERY_CONNECTION_RESET"
    [] OTHER -> "DELIVERY_ERROR"

\* C27: normalizeDeliveryError gives a transport failure the one code of
\* its cause (timeout or abort, refused, DNS, reset, anything else), and the
\* message of a DELIVERY_ERROR is the start of the raw message, of a
\* bounded length (the length the same file cuts a response preview to).
C27_TransportFailureClassified ==
  applied.fn = "normalizeDeliveryError" =>
    /\ applied.out.code = CodeOfCause(applied.err)
    /\ applied.out.code = "DELIVERY_ERROR" /\ applied.err.message # "" =>
         /\ IsPrefix(applied.out.message, applied.err.message)
         /\ Len(applied.out.message) <= PreviewLimit

\* C28: when the call of the test route to a target is refused, the message
\* of the DELIVERY_CONNECTION_REFUSED error has the loopback hint exactly
\* when the host of the target's configured URL is localhost or 127.0.0.1.
C28_LoopbackHint ==
  applied.fn = "testTarget" /\ applied.out.code = "DELIVERY_CONNECTION_REFUSED" =>
    (Contains(applied.out.message, LocalhostHint)
       <=> Lower(applied.target.url.host) \in {"localhost", "127.0.0.1"})

\* the status the last delivery call before position j answered
LastDeliveryStatus(p, j) ==
  LET d == CHOOSE d \in 1..(j - 1) :
             /\ IsDelivery(calls[p][d])
             /\ \A e \in (d + 1)..(j - 1) : ~IsDelivery(calls[p][e])
  IN  calls[p][d].status
IsEvent(req, eventType) == IsLog(req) /\ req.body.eventType = eventType

\* C29: when the delivery of a run has succeeded, the update to delivered
\* is sent with deliveryStatusCode equal to the status the last target
\* called answered (the legacy target's in the fallback case), with
\* deliveryDurationMs and durationMs, and delivery_succeeded is appended
\* right after that update and nowhere else.
C29_DeliveredCarriesLastStatus ==
  \A p \in Paths :
    /\ \A j \in DOMAIN calls[p] :
         /\ IsUpdate(calls[p][j]) /\ calls[p][j].body.status = "delivered" =>
              /\ {"deliveryDurationMs", "durationMs"} \subseteq DOMAIN calls[p][j].body
              /\ (\E d \in 1..(j - 1) : IsDelivery(calls[p][d])) =>
                   /\ "deliveryStatusCode" \in DOMAIN calls[p][j].body
                   /\ calls[p][j].body.deliveryStatusCode = LastDeliveryStatus(p, j)
         /\ IsEvent(calls[p][j], "delivery_succeeded") =>
              /\ j > 1
              /\ IsUpdate(calls[p][j - 1]) /\ calls[p][j - 1].body.status = "delivered"
    /\ Finished(p) /\ RunCreated(p) /\ DeliverySucceeded(p) =>
         /\ Updated(p, "delivered")
         /\ Appended(p, "delivery_succeeded")

\* the order of the audit events of a run
EventOrder ==
  << "file_detected", "anonymize_started", "anonymize_succeeded",
     "delivery_started", "delivery_succeeded", "cleanup_deleted" >>
EventRank(eventType) == CHOOSE r \in DOMAIN EventOrder : EventOrder[r] = eventType
\* the status the run must have been given before an event is appended
StageOf(eventType) ==
  CASE eventType = "file_detected" -> "queued"
    [] eventType = "anonymize_started" -> "processing"
    [] eventType \in {"anonymize_succeeded", "delivery_started"} -> "anonymized"
    [] eventType = "delivery_succeeded" -> "delivered"
    [] eventType = "cleanup_deleted" -> "deleted"
    [] eventType = "run_failed" -> "failed"
Events(p) == SelectSeq(calls[p], IsLog)

\* C30: the audit events of a run other than run_failed are appended in the
\* order file_detected, anonymize_started, anonymize_succeeded,
\* delivery_started, delivery_succeeded, cleanup_deleted, each at most once
\* and after the accepted create or update of its stage; run_failed is
\* appended at most once, right after the accepted failed update, and no
\* event follows it.
C30_EventOrder ==
  \A p \in Paths :
    LET events == Events(p) IN
      /\ \A a \in DOMAIN events : \A b \in DOMAIN events :
           a < b =>
             /\ events[a].body.eventType # "run_failed"
             /\ events[b].body.eventType # "run_failed" =>
                  EventRank(events[a].body.eventType) < EventRank(events[b].body.eventType)
      /\ \A j \in DOMAIN calls[p] :
           IsLog(calls[p][j]) =>
             \E w \in 1..(j - 1) :
               /\ IsCreate(calls[p][w]) \/ IsUpdate(calls[p][w])
               /\ calls[p][w].ok
               /\ calls[p][w].body.status = StageOf(calls[p][j].body.eventType)
      /\ \A j \in DOMAIN calls[p] :
           IsEvent(calls[p][j], "run_failed") =>
             /\ j > 1
             /\ IsUpdate(calls[p][j - 1]) /\ calls[p][j - 1].body.status = "failed"
             /\ calls[p][j - 1].ok
             /\ \A e \in DOMAIN calls[p] : e > j => ~IsLog(calls[p][e])

C30_Witness ==
  /\ Finished(JsonPath)
  /\ Len(Events(JsonPath)) = 6
  /\ Appended(JsonPath, "cleanup_deleted")

\* every request of the orchestration to the control plane was answered
\* with success
ControlPlaneUp(p) ==
  \A j \in DOMAIN calls[p] :
    IsApi(calls[p][j]) =>
      /\ "ok" \in DOMAIN calls[p][j] => calls[p][j].ok
      /\ IsGetTargets(calls[p][j]) => calls[p][j].res = "ok"
TerminalStatuses == {"delivered", "failed", "deleted"}

\* C31: when every control-plane call of an orchestration has succeeded and
\* the orchestration has created a run and has finished, the last status
\* written for the run is delivered, failed or deleted.
C31_FinishedRunIsTerminal ==
  \A p \in Paths :
    Finished(p) /\ RunCreated(p) /\ ControlPlaneUp(p) =>
      LastStatus(p) \in TerminalStatuses

C31_Witness ==
  /\ Finished(JsonPath) /\ RunCreated(JsonPath) /\ ControlPlaneUp(JsonPath)
  /\ LastStatus(JsonPath) = "deleted"

\* how many findings of an entity type analyze returns over the first n
\* messages of a chat log, and how many findings of any type
EntityTypes == {"EMAIL_ADDRESS", "PHONE_NUMBER"}
RECURSIVE FindingsOfType(_, _, _)
FindingsOfType(chatLog, n, type) ==
  IF n = 0 THEN 0
  ELSE FindingsOfType(chatLog, n - 1, type)
         + Cardinality({ f \in DOMAIN Findings(chatLog[n].content) :
                           Findings(chatLog[n].content)[f] = type })
RECURSIVE EntitiesFound(_, _)
EntitiesFound(messages, n) ==
  IF n = 0 THEN 0 ELSE EntitiesFound(messages, n - 1) + messages[n].entities_found

\* C32: the entities_found of each message is the number of findings
\* analyze returned for it; the presidioStats of the anonymized update
\* hold, for each entity type found, the number of findings of that type
\* over all messages, and nothing else; the entityCount of
\* anonymize_succeeded is the sum of these counts, which is the sum of
\* entities_found over all messages.
C32_CountsAgree ==
  \A p \in Paths : \A k \in DOMAIN procs[p] :
    LET l == procs[p][k]
        N == Len(l.chatLog)
    IN  /\ \A j \in DOMAIN l.anonymizedMessages :
             l.anonymizedMessages[j].entities_found = Len(Findings(l.chatLog[j].content))
        /\ \A j \in DOMAIN calls[p] :
             /\ IsUpdate(calls[p][j]) /\ calls[p][j].body.status = "anonymized" =>
                  LET stats == calls[p][j].body.presidioStats IN
                    /\ \A a \in DOMAIN stats : \A b \in DOMAIN stats :
                         stats[a].type = stats[b].type => a = b
                    /\ \A a \in DOMAIN stats :
                         stats[a].n = FindingsOfType(l.chatLog, N, stats[a].type)
                    /\ \A type \in EntityTypes :
                         FindingsOfType(l.chatLog, N, type) > 0 =>
                           \E a \in DOMAIN stats : stats[a].type = type
                    /\ SumCounts(stats) = EntitiesFound(l.anonymizedMessages, N)
             /\ IsEvent(calls[p][j], "anonymize_succeeded") =>
                  /\ calls[p][j].body.meta.entityCount = SumCounts(calls[p][j - 1].body.presidioStats)
                  /\ calls[p][j].body.meta.entityCount =
                       EntitiesFound(l.anonymizedMessages, N)

C32_Witness ==
  \E k \in DOMAIN procs[JsonPath] :
    LET l == procs[JsonPath][k] IN
      /\ l.pc = "fetchTargets"
      /\ Appended(JsonPath, "anonymize_succeeded")
      /\ Len(l.chatLog) = 2
      /\ FindingsOfType(l.chatLog, 2, "EMAIL_ADDRESS") = 2

ErrorCodes == {"READ_ERROR", "INVALID_SCHEMA", "PRESIDIO_ERROR", "DELIVERY_ERROR"}
\* the orchestration has met the failure an error code stands for
CauseOf(p, errorCode) ==
  CASE errorCode = "READ_ERROR" ->
         Some(p, LAMBDA req : req.op = "readFile" /\ req.res = "error")
    [] errorCode = "INVALID_SCHEMA" ->
         Some(p, LAMBDA req : req.op = "readFile" /\ req.res = "invalid")
    [] errorCode = "PRESIDIO_ERROR" -> PresidioFailed(p)
    [] errorCode = "DELIVERY_ERROR" -> DeliveryFailed(p)

\* C33: an update to failed has one errorCode, READ_ERROR, INVALID_SCHEMA,
\* PRESIDIO_ERROR or DELIVERY_ERROR, and is sent only when the
\* orchestration has met a read error, a parse or schema error, a failed
\* Presidio call or a failed delivery call respectively; an update to any
\* other status has no errorCode.
C33_FailedOnlyForItsCause ==
  \A p \in Paths : \A j \in DOMAIN calls[p] :
    IsUpdate(calls[p][j]) =>
      IF calls[p][j].body.status = "failed"
      THEN /\ calls[p][j].body.errorCode \in ErrorCodes
           /\ CauseOf(p, calls[p][j].body.errorCode)
      ELSE "errorCode" \notin DOMAIN calls[p][j].body

----------------------------------------------------------------------------
\* the analysis step of an orchestration

IsAnalysis(req, endpoint) == req.to = "analysis" /\ req.op = endpoint
AnalysisCall(p, endpoint) == Some(p, LAMBDA req : IsAnalysis(req, endpoint))
\* what the analysis step is to call under the configuration the
\* orchestration got
Wanted(p, endpoint) ==
  /\ AnalysisConfigured([config |-> ConfigOf(p)])
  /\ IF endpoint = "sentiment" THEN ConfigOf(p).analysisServiceSentimentEnabled
     ELSE ConfigOf(p).analysisServiceToxicityEnabled
DeliveryStage(p) == Some(p, IsGetTargets)

\* C34: an analysis-service call is made only when an analysis URL and an
\* API key are configured and the flag of its endpoint is on, after the last
\* request to the entity-detection service and (when a run exists) after
\* the accepted update to anonymized, and before delivery_started, the
\* request for the targets and every delivery call; each endpoint is called
\* at most once, sentiment before toxicity; and an orchestration that has
\* reached the delivery step has called exactly the endpoints whose flags
\* are on, whatever the outcome of the sentiment call.
C34_AnalysisStep ==
  \A p \in Paths :
    /\ \A j \in DOMAIN calls[p] :
         calls[p][j].to = "analysis" =>
           /\ calls[p][j].op \in {"sentiment", "toxicity"}
           /\ Wanted(p, calls[p][j].op)
           /\ RunCreated(p) =>
                \E i \in 1..(j - 1) : /\ IsUpdate(calls[p][i])
                                     /\ calls[p][i].body.status = "anonymized"
           /\ \A i \in 1..(j - 1) :
                /\ ~(IsLog(calls[p][i]) /\ calls[p][i].body.eventType = "delivery_started")
                /\ ~IsGetTargets(calls[p][i])
                /\ ~IsDelivery(calls[p][i])
                /\ ~IsAnalysis(calls[p][i], "toxicity")
                /\ ~IsAnalysis(calls[p][i], calls[p][j].op)
           /\ \A i \in (j + 1)..Len(calls[p]) : calls[p][i].to # "presidio"
    /\ DeliveryStage(p) =>
         \A endpoint \in {"sentiment", "toxicity"} :
           AnalysisCall(p, endpoint) <=> Wanted(p, endpoint)

\* a failed sentiment call directly followed by the toxicity call, in an
\* orchestration that went on to the delivery step
C34_Witness ==
  /\ Finished(JsonPath)
  /\ \E j \in DOMAIN calls[JsonPath] :
       /\ IsAnalysis(calls[JsonPath][j], "sentiment") /\ ~calls[JsonPath][j].ok
       /\ IsAnalysis(calls[JsonPath][j + 1], "toxicity")
  /\ Appended(JsonPath, "delivery_started")
----------------------------------------------------------------------------
\* the watcher and the scanner

Last(seq) == seq[Len(seq)]
\* the file of the path was written while an orchestration of the path was
\* in flight: the orchestration started at an earlier modification time
ModifiedInFlight(p, m) ==
  /\ p \in inFlight /\ started[p] # <<>>
  /\ mtime[p] = m /\ Last(started[p]) < m
StartedSince(p, m) == \E j \in DOMAIN started[p] : started[p][j] >= m

\* C35: when the file of a path is modified while an orchestration of the
\* path is in flight, an orchestration of the path starts at the new
\* modification time later on (or the file is gone): the change event and
\* the scanner's detection that arrive during the run are not lost.
C35_ModificationNotLost ==
  \A p \in Paths : \A m \in 1..MaxMtime :
    ModifiedInFlight(p, m) ~> (StartedSince(p, m) \/ ~exists[p])

\* C36: a file that is still in the uploads folder has been orchestrated
\* at most once at its modification time, over the events of the watcher
\* and the ticks of the scanner.
C36_OrchestratedOnce ==
  \A p \in Paths :
    exists[p] =>
      Cardinality({j \in DOMAIN started[p] : started[p][j] = mtime[p]}) <= 1
----------------------------------------------------------------------------
\* cleanup

\* the j-th request deleted the file on the success path: the delivery step
\* was reached and ended without a failed call and without a rejected update
DeletedAfterSuccess(p, j) ==
  /\ calls[p][j].op = "unlink" /\ calls[p][j].ok
  /\ \E i \in 1..(j - 1) : IsGetTargets(calls[p][i])
  /\ \A i \in 1..(j - 1) :
       /\ IsDelivery(calls[p][i]) => Is2xx(calls[p][i].status)
       /\ IsUpdate(calls[p][i]) => calls[p][i].ok \/ calls[p][i].body.status # "delivered"
DeliveredBefore(p, j) ==
  \E i \in 1..(j - 1) : IsDelivery(calls[p][i]) /\ Is2xx(calls[p][i].status)
MarkedBefore(p, j) ==
  \E i \in 1..(j - 1) : IsUpdate(calls[p][i]) /\ calls[p][i].body.status = "delivered"

\* C37: on the success path the file is deleted only after a delivery call
\* has returned a 2xx status and (when a run exists) after the update of
\* the run to delivered; a file whose delivery was skipped is not deleted.
C37_DeletedOnlyAfterDelivery ==
  \A p \in Paths : \A j \in DOMAIN calls[p] :
    DeletedAfterSuccess(p, j) =>
      /\ DeliveredBefore(p, j)
      /\ RunCreated(p) => MarkedBefore(p, j)
----------------------------------------------------------------------------
\* substituted values

\* every placeholder of the template names a variable or nothing known:
\* none names a key inherited from Object.prototype
RECURSIVE NamesOwn(_)
NamesOwn(val) ==
  CASE val.type = "object" -> \A j \in DOMAIN val.value : NamesOwn(val.value[j].v)
    [] val.type = "array" -> \A j \in DOMAIN val.value : NamesOwn(val.value[j])
    [] val.type = "string" /\ IsPlaceholder(val.value) ->
         VarNameOf(val.value) \notin ObjectPrototypeKeys
    [] OTHER -> TRUE

\* C38: substitution is applied to the string leaves of the template only:
\* the rendered body is the template with its placeholders replaced by the
\* values of the result as they are, so a message content or a metadata
\* value of the form ${name} is written into the body verbatim.
C38_SubstitutedValuesVerbatim ==
  applied.fn = "renderBodyTemplate" /\ NamesOwn(applied.template) =>
    applied.out = Returned(Stringify(Rendering(applied.template, applied.result)))
----------------------------------------------------------------------------
\* run updates

\* the column of processing_runs a field of the update body is stored in
Column(field) ==
  CASE field = "status" -> "status"
    [] field = "errorCode" -> "error_code"
    [] field = "errorMessageSafe" -> "error_message_safe"
    [] field = "presidioStats" -> "presidio_stats"
    [] field = "deliveryTargetCount" -> "delivery_target_count"
    [] field = "deliverySuccessCount" -> "delivery_success_count"
    [] field = "deliveryFailureCount" -> "delivery_failure_count"
    [] field = "deliveryStatusCode" -> "delivery_status_code"
    [] field = "deliveryDurationMs" -> "delivery_duration_ms"
    [] field = "durationMs" -> "duration_ms"
CreatedColumns == {"id", "created_at", "source_type", "source_file_name", "source_file_size"}

\* C39: a PATCH of a run sets the columns of the fields its body has and
\* updated_at and leaves every other column of the run as it was (so the
\* stats stored with anonymized stay through a later delivered, failed or
\* deleted update); it changes no other run, and for an id no run has it
\* changes nothing and adds no run.
C39_UpdateFrame ==
  [][ handled'.route = "PATCH /api/runs/:id" /\ handled' # handled =>
        LET id == handled'.id
            d == handled'.body
        IN  /\ Len(processing_runs') = Len(processing_runs)
            /\ RowsWithId(processing_runs, id) = {} => processing_runs' = processing_runs
            /\ \A j \in DOMAIN processing_runs :
                 LET old == processing_runs[j]
                     new == processing_runs'[j]
                 IN  IF old.id = id /\ handled'.status = 200
                     THEN /\ \A field \in UpdateFields :
                               new[Column(field)] =
                                 IF field \in DOMAIN d THEN Bound(field, d[field])
                                 ELSE old[Column(field)]
                          /\ \A col \in CreatedColumns : new[col] = old[col]
                     ELSE new = old ]_vars

\* the run updated to anonymized with its stats, then to delivered by a body
\* without stats: the stats are still in the row; a second run is there
C39_Witness ==
  /\ Len(processing_runs) = 2
  /\ handled.route = "PATCH /api/runs/:id" /\ handled.status = 200
  /\ handled.id = "run-1"
  /\ DOMAIN handled.body = {"status", "deliveryStatusCode", "deliveryDurationMs", "durationMs"}
  /\ processing_runs[1].status = Str("delivered")
  /\ processing_runs[1].presidio_stats = Str(Stringify(StatsFound))
====
